---- MODULE Spec2Model ----
(***************************************************************************)
(* A model of the cricket-api scraper (app/scraper.py, and the earlier     *)
(* revision of the same extractors kept in app/main.py).                   *)
(*                                                                         *)
(* The program is a set of functions over a fetched document.  A text is   *)
(* a sequence of one-character strings, so that case folding, substring    *)
(* search, splitting and number parsing are computed, not assumed.  A      *)
(* document is the list of the elements the selectors of the code can      *)
(* find, in document order.  Python's None is the record None, a raised    *)
(* exception is Raise(class), a returned value is Return(value).           *)
(***************************************************************************)
EXTENDS Integers, Sequences, FiniteSets, TLC

VARIABLES fn, arg, ret, pc, tz, log, earlier

vars == <<fn, arg, ret, pc, tz, log, earlier>>

(***************************************************************************)
(* Python values                                                           *)
(***************************************************************************)
None == [t |-> "none"]

Return(v) == [t |-> "return", v |-> v]

Raise(e) == [t |-> "raise", exc |-> e]

Pending == [t |-> "pending"]

\* a str, an int and a float (see Float below)
Str(s) == [t |-> "str", v |-> s]

Num(n) == [t |-> "int", v |-> n]

Flt(x) == [t |-> "float", v |-> x]

(***************************************************************************)
(* Texts: str methods and the regular expressions of the code              *)
(***************************************************************************)
UpperChars == <<"A","B","C","D","E","F","G","H","I","J","K","L","M",
                "N","O","P","Q","R","S","T","U","V","W","X","Y","Z">>

LowerChars == <<"a","b","c","d","e","f","g","h","i","j","k","l","m",
                "n","o","p","q","r","s","t","u","v","w","x","y","z">>

AsciiDigits == {"0","1","2","3","4","5","6","7","8","9"}

\* Characters that are not ASCII are written by name: "ar3" is U+0663
\* (Arabic-Indic digit three), "sup2" is U+00B2 (superscript two), "dagger" is
\* U+2020.
\* a decimal digit that is not ASCII: int() and float() read it
OtherDecimalDigits == {"ar3"}

DecimalDigits == AsciiDigits \cup OtherDecimalDigits

\* characters str.isdigit() accepts and int() and float() reject (superscripts)
SuperscriptDigits == {"sup2"}

LowerChar(c) ==
    IF \E i \in 1..26 : UpperChars[i] = c
    THEN LowerChars[CHOOSE i \in 1..26 : UpperChars[i] = c]
    ELSE c

\* str.lower()
Lower(s) == SubSeq([i \in 1..Len(s) |-> LowerChar(s[i])], 1, Len(s))

\* p in s
Contains(s, p) ==
    \E i \in 0..(Len(s) - Len(p)) : \A k \in 1..Len(p) : s[i + k] = p[k]

\* the first index at which p occurs in s, 0 when it does not
Find(s, p) ==
    IF Contains(s, p)
    THEN 1 + CHOOSE i \in 0..(Len(s) - Len(p)) :
               /\ SubSeq(s, i + 1, i + Len(p)) = p
               /\ \A j \in 0..(i - 1) : SubSeq(s, j + 1, j + Len(p)) # p
    ELSE 0

RECURSIVE LStrip(_)
LStrip(s) == IF s # <<>> /\ Head(s) = " " THEN LStrip(Tail(s)) ELSE s

RECURSIVE RStrip(_)
RStrip(s) ==
    IF s # <<>> /\ s[Len(s)] = " " THEN RStrip(SubSeq(s, 1, Len(s) - 1)) ELSE s

\* str.strip()
Strip(s) == LStrip(RStrip(s))

\* str.replace(old, new), old not empty
RECURSIVE Replace(_, _, _)
Replace(s, old, new) ==
    LET from(i) ==
            IF i = 0 THEN s
            ELSE SubSeq(s, 1, i - 1) \o new
                 \o Replace(SubSeq(s, i + Len(old), Len(s)), old, new)
    IN from(Find(s, old))

\* str.split(sep), sep not empty
RECURSIVE Split(_, _)
Split(s, sep) ==
    LET from(i) ==
            IF i = 0 THEN <<s>>
            ELSE <<SubSeq(s, 1, i - 1)>> \o Split(SubSeq(s, i + Len(sep), Len(s)), sep)
    IN from(Find(s, sep))

\* str.isdigit(): not empty and every character a digit (Unicode digits included)
IsDigit(s) == s # <<>> /\ \A i \in 1..Len(s) : s[i] \in DecimalDigits \cup SuperscriptDigits

DigitVal(c) ==
    IF c = "ar3" THEN 3
    ELSE CHOOSE d \in 0..9 : <<"0","1","2","3","4","5","6","7","8","9">>[d + 1] = c

RECURSIVE DigitsToInt(_)
DigitsToInt(s) ==
    IF s = <<>> THEN 0 ELSE 10 * DigitsToInt(SubSeq(s, 1, Len(s) - 1)) + DigitVal(s[Len(s)])

\* str(n) for n >= 0
RECURSIVE IntToText(_)
IntToText(n) ==
    LET d == <<"0","1","2","3","4","5","6","7","8","9">>[(n % 10) + 1]
    IN IF n < 10 THEN <<d>> ELSE IntToText(n \div 10) \o <<d>>

(***************************************************************************)
(* fetch_page                                                              *)
(***************************************************************************)
\* the classes an exception of each class is an instance of (requests.exceptions)
Mro(exc) ==
    CASE exc = "ConnectTimeout" ->
             {"ConnectTimeout", "ConnectionError", "Timeout", "RequestException", "Exception"}
      [] exc = "ReadTimeout" -> {"ReadTimeout", "Timeout", "RequestException", "Exception"}
      [] exc = "Timeout" -> {"Timeout", "RequestException", "Exception"}
      [] exc = "SSLError" -> {"SSLError", "ConnectionError", "RequestException", "Exception"}
      [] exc = "ProxyError" -> {"ProxyError", "ConnectionError", "RequestException", "Exception"}
      [] exc = "ConnectionError" -> {"ConnectionError", "RequestException", "Exception"}
      [] exc = "HTTPError" -> {"HTTPError", "RequestException", "Exception"}
      [] exc = "TooManyRedirects" -> {"TooManyRedirects", "RequestException", "Exception"}
      [] exc = "MissingSchema" -> {"MissingSchema", "RequestException", "ValueError", "Exception"}
      [] OTHER -> {exc, "Exception"}

\* Response.raise_for_status(): raises HTTPError for 4xx and 5xx only
raise_for_status(status) == 400 <= status /\ status < 600

\* the handler chosen by the except clauses, in their order
\* classify without the last clause, except Exception
classify_mutant(exc, status) ==
    IF "Timeout" \in Mro(exc) THEN Return(<<None, Str(<<"t","i","m","e","o","u","t">>)>>)
    ELSE IF "ConnectionError" \in Mro(exc) THEN Return(<<None, Str(<<"c","o","n","n","e","c","t","i","o","n","_","e","r","r","o","r">>)>>)
    ELSE IF "HTTPError" \in Mro(exc) THEN Return(<<None, Str(<<"h","t","t","p","_">> \o IntToText(status))>>)
    ELSE Raise(exc)

classify(exc, status) ==
    IF "Timeout" \in Mro(exc) THEN Return(<<None, Str(<<"t","i","m","e","o","u","t">>)>>)
    ELSE IF "ConnectionError" \in Mro(exc) THEN Return(<<None, Str(<<"c","o","n","n","e","c","t","i","o","n","_","e","r","r","o","r">>)>>)
    ELSE IF "HTTPError" \in Mro(exc) THEN Return(<<None, Str(<<"h","t","t","p","_">> \o IntToText(status))>>)
    ELSE IF "Exception" \in Mro(exc) THEN Return(<<None, Str(<<"u","n","k","n","o","w","n">>)>>)
    ELSE Raise(exc)

\* o: what requests.get does: it raises o.exc, or returns a response with o.status
fetch_page(o) ==
    IF o.exc # "none" THEN classify(o.exc, 0)
    ELSE IF raise_for_status(o.status) THEN classify("HTTPError", o.status)
    ELSE Return(<<[t |-> "soup", status |-> o.status], None>>)

(***************************************************************************)
(* Documents: the elements of a parsed page, in document order.  An        *)
(* element is [tag, cls, text, kids]: cls is the class attribute (empty    *)
(* when absent), text its own string, kids its child elements (leaves).    *)
(***************************************************************************)
Elem(tag, cls, text) == [tag |-> tag, cls |-> cls, text |-> text, kids |-> <<>>]

Parent(tag, cls, kids) == [tag |-> tag, cls |-> cls, text |-> <<>>, kids |-> kids]

RECURSIVE Flat(_)
\* every element of the tree, a parent before its children
Flat(body) ==
    IF body = <<>> THEN <<>>
    ELSE <<Head(body)>> \o Head(body).kids \o Flat(Tail(body))

RECURSIVE JoinStripped(_)
JoinStripped(kids) ==
    IF kids = <<>> THEN <<>> ELSE Strip(Head(kids).text) \o JoinStripped(Tail(kids))

\* Tag.get_text(strip=True): the stripped strings of the element, concatenated
get_text(e) == IF e.kids = <<>> THEN Strip(e.text) ELSE JoinStripped(e.kids)

\* Tag.string: the element's only string, None when it has none or several
StringOf(e) ==
    IF e.kids = <<>> THEN (IF e.text = <<>> THEN None ELSE Str(e.text))
    ELSE IF Len(e.kids) = 1 /\ e.kids[1].text # <<>> THEN Str(e.kids[1].text)
    ELSE None

\* soup.find: the first element of els that satisfies P, None when there is none
\* I: the indexes of the elements of els that the selector matches
FindFirst(els, I) == IF I = {} THEN None ELSE els[CHOOSE i \in I : \A j \in I : i <= j]

\* soup.find(tag, class_=lambda c: c and frag in c)
FindClass(els, tag, frag) ==
    FindFirst(els, {i \in 1..Len(els) :
                      els[i].tag = tag /\ els[i].cls # <<>> /\ Contains(els[i].cls, frag)})

\* re.compile(r'opt to (bat|field)', re.I).search(s)
MatchesToss(s) ==
    Contains(Lower(s), <<"o","p","t"," ","t","o"," ","b","a","t">>) \/ Contains(Lower(s), <<"o","p","t"," ","t","o"," ","f","i","e","l","d">>)

\* re.compile(r'won by \d+ (run|wicket)', re.I).search(s)
MatchesResult(s) ==
    LET l == Lower(s)
    IN \E i \in 1..Len(l) : \E j \in (i + 7)..Len(l) :
          /\ SubSeq(l, i, i + 6) = <<"w","o","n"," ","b","y"," ">>
          /\ \A k \in (i + 7)..j : l[k] \in DecimalDigits
          /\ \/ j + 4 <= Len(l) /\ SubSeq(l, j + 1, j + 4) = <<" ","r","u","n">>
             \/ j + 7 <= Len(l) /\ SubSeq(l, j + 1, j + 7) = <<" ","w","i","c","k","e","t">>

\* the indexes of the div elements that have a string
DivsWithString(els) == {i \in 1..Len(els) : els[i].tag = "div" /\ StringOf(els[i]) # None}

\* soup.find('div', string=re.compile(r'opt to (bat|field)', re.I))
FindToss(els) ==
    FindFirst(els, {i \in DivsWithString(els) : MatchesToss(StringOf(els[i]).v)})

\* soup.find('div', string=re.compile(r'won by \d+ (run|wicket)', re.I))
FindResult(els) ==
    FindFirst(els, {i \in DivsWithString(els) : MatchesResult(StringOf(els[i]).v)})

\* soup.find('div', string=re.compile(kw, re.I))
FindKeyword(els, kw) ==
    FindFirst(els, {i \in DivsWithString(els) : Contains(Lower(StringOf(els[i]).v), kw)})

(***************************************************************************)
(* extract_match_status_from_match_page                                    *)
(***************************************************************************)
MaxStatusLen == 60

bad == << <<"s","h","o","r","t"," ","b","a","l","l">>, <<"f","u","l","l"," ","t","o","s","s">>, <<"d","r","i","v","e","n">>, <<"p","u","l","l","e","d">>, <<"c","u","t">>, <<"s","w","e","p","t">>,
          <<"o","v","e","r"," ","m","i","d","-","w","i","c","k","e","t">>, <<"l","o","n","g"," ","o","n">>, <<"l","o","n","g"," ","o","f","f">>, <<"c","o","v","e","r","s">>, <<"p","o","i","n","t">>,
          <<"S","c","h","e","d","u","l","e">>, <<"A","r","c","h","i","v","e","s">>, <<"R","a","n","k","i","n","g","s">>, <<"V","i","d","e","o","s">>, <<"M","o","r","e">> >>

keywords == << <<"w","o","n">>, <<"l","i","v","e">>, <<"s","t","u","m","p","s">>, <<"i","n","n","i","n","g","s">>, <<"r","a","i","n">>, <<"a","b","a","n","d","o","n","e","d">>,
               <<"o","p","t">>, <<"t","a","r","g","e","t">>, <<"n","e","e","d">>, <<"r","e","q","u","i","r","e","d">>, <<"b","r","e","a","k">> >>

is_valid_status(text) ==
    IF text = <<>> \/ Len(text) > MaxStatusLen THEN FALSE
    ELSE LET lower == Lower(text)
         IN IF \E p \in 1..Len(bad) : Contains(lower, bad[p]) THEN FALSE
            ELSE \E k \in 1..Len(keywords) : Contains(lower, keywords[k])

status_keywords == << <<"i","n","n","i","n","g","s"," ","b","r","e","a","k">>, <<"s","t","u","m","p","s">>, <<"r","a","i","n">>, <<"a","b","a","n","d","o","n","e","d">>, <<"l","u","n","c","h">>, <<"t","e","a">> >>

\* the for loop over the keyword patterns, from the k-th on
RECURSIVE keyword_scan(_, _)
keyword_scan(els, k) ==
    IF k > Len(status_keywords) THEN None
    ELSE LET elem == FindKeyword(els, status_keywords[k])
         IN IF elem # None /\ is_valid_status(get_text(elem)) THEN Str(get_text(elem))
            ELSE keyword_scan(els, k + 1)

\* the loop over header.find_all(['div', 'span'])
header_scan(header) ==
    LET hit == FindFirst(header.kids,
                         {i \in 1..Len(header.kids) :
                            /\ header.kids[i].tag \in {"div", "span"}
                            /\ is_valid_status(get_text(header.kids[i]))})
    IN IF hit = None THEN None ELSE Str(get_text(hit))

status_tail(els) ==
    LET kw == keyword_scan(els, 1)
        preview == FindClass(els, "div", <<"c","b","-","t","e","x","t","-","p","r","e","v","i","e","w">>)
        header == FindFirst(els, {i \in 1..Len(els) : /\ els[i].tag = "div"
                                                       /\ els[i].cls # <<>>
                                                       /\ Contains(els[i].cls, <<"c","b","-","c","o","l","-","1","0","0">>)
                                                       /\ Contains(els[i].cls, <<"c","b","-","m","i","n","i","s","c","r","o","l","l">>)})
    IN IF kw # None THEN kw
       ELSE IF preview # None THEN Str(<<"P","r","e","v","i","e","w">>)
       ELSE IF header # None THEN header_scan(header)
       ELSE None

\* the result text looked for before the toss text
extract_match_status_from_match_page_mutant(body) ==
    LET els == Flat(body)
        live_badge == FindClass(els, "span", <<"c","b","-","p","l","u","s","-","l","i","v","e","-","t","a","g">>)
        status_div == FindClass(els, "div", <<"c","b","-","t","e","x","t","-">>)
        toss == FindToss(els)
        result == FindResult(els)
    IN IF live_badge # None THEN Str(<<"L","i","v","e">>)
       ELSE IF status_div # None /\ is_valid_status(get_text(status_div))
            THEN Str(get_text(status_div))
       ELSE IF result # None /\ is_valid_status(get_text(result)) THEN Str(get_text(result))
       ELSE IF toss # None /\ is_valid_status(get_text(toss)) THEN Str(get_text(toss))
       ELSE status_tail(els)

extract_match_status_from_match_page(body) ==
    LET els == Flat(body)
        live_badge == FindClass(els, "span", <<"c","b","-","p","l","u","s","-","l","i","v","e","-","t","a","g">>)
        status_div == FindClass(els, "div", <<"c","b","-","t","e","x","t","-">>)
        toss == FindToss(els)
        result == FindResult(els)
    IN IF live_badge # None THEN Str(<<"L","i","v","e">>)
       ELSE IF status_div # None /\ is_valid_status(get_text(status_div))
            THEN Str(get_text(status_div))
       ELSE IF toss # None /\ is_valid_status(get_text(toss)) THEN Str(get_text(toss))
       ELSE IF result # None /\ is_valid_status(get_text(result)) THEN Str(get_text(result))
       ELSE status_tail(els)


(***************************************************************************)
(* Numbers in statistic cells                                              *)
(***************************************************************************)
RECURSIVE Pow10(_)
Pow10(k) == IF k = 0 THEN 1 ELSE 10 * Pow10(k - 1)

\* a float m / 10^e, written without trailing zeros of the fraction
RECURSIVE Float(_, _)
Float(m, e) == IF e > 0 /\ m % 10 = 0 THEN Float(m \div 10, e - 1) ELSE [m |-> m, e |-> e]

\* int(s): decimal digits only (surrounding blanks were stripped before)
int(s) ==
    IF s # <<>> /\ \A i \in 1..Len(s) : s[i] \in DecimalDigits
    THEN Return(Num(DigitsToInt(s)))
    ELSE Raise("ValueError")

CountDots(s) == Cardinality({i \in 1..Len(s) : s[i] = "."})

\* float(s) of a text of digits and dots: digits, at most one dot, one digit at least
float(s) ==
    LET value(digits, dot) ==
            IF /\ digits # <<>>
               /\ \A i \in 1..Len(digits) : digits[i] \in DecimalDigits
               /\ CountDots(s) <= 1
            THEN Return(Flt(Float(DigitsToInt(digits), IF dot = 0 THEN 0 ELSE Len(s) - dot)))
            ELSE Raise("ValueError")
    IN value(Replace(s, <<".">>, <<>>), Find(s, <<".">>))

\* int(t) if t.isdigit() else 0
int_or_zero(t) == IF IsDigit(t) THEN int(t) ELSE Return(Num(0))

\* float(t) if t.replace('.', '').isdigit() else 0.0
float_or_zero(t) == IF IsDigit(Replace(t, <<".">>, <<>>)) THEN float(t) ELSE Return(Flt(Float(0, 0)))

(***************************************************************************)
(* extract_batting, extract_bowling                                        *)
(* A scorecard page is [tables, grid]: a table is [header, rows], the      *)
(* cells of its first tr and its other rows; a row is [cells, link], the   *)
(* texts of its cells and the text of its first link to /profiles/ (None   *)
(* when it has none).  A grid row is the same, its cells the statistic     *)
(* divs.                                                                   *)
(***************************************************************************)
\* the try block of a row: an entry, or None when the except clause drops the row
row_entry(name, numbers) ==
    IF \E k \in DOMAIN numbers : numbers[k].t = "raise"
    THEN None
    ELSE [name |-> Str(name)] @@ [k \in DOMAIN numbers |-> numbers[k].v]

batting_name(link) == Replace(Replace(Strip(link.v), <<" ","*">>, <<>>), <<"dagger">>, <<>>)

\* cells: the texts of runs, balls, fours, sixes and the strike rate
batting_entry(link, cells) ==
    row_entry(batting_name(link),
              [runs |-> int_or_zero(Strip(cells[1])),
               balls |-> int_or_zero(Strip(cells[2])),
               fours |-> int_or_zero(Strip(cells[3])),
               sixes |-> int_or_zero(Strip(cells[4])),
               sr |-> float_or_zero(Strip(cells[5]))])

\* cells: the texts of overs, maidens, runs, wickets and the economy
bowling_entry(link, cells) ==
    row_entry(Strip(link.v),
              [overs |-> float_or_zero(Strip(cells[1])),
               maidens |-> int_or_zero(Strip(cells[2])),
               runs |-> int_or_zero(Strip(cells[3])),
               wickets |-> int_or_zero(Strip(cells[4])),
               econ |-> float_or_zero(Strip(cells[5]))])

\* the try block of the function: kind is "bat" in extract_batting, "bowl" in extract_bowling
entry(kind, link, cells) ==
    IF kind = "bat" THEN batting_entry(link, cells) ELSE bowling_entry(link, cells)

\* any(word in th.get_text() for th in header.find_all(['th', 'td']))
header_has(table, word) == \E i \in 1..Len(table.header) : Contains(table.header[i], word)

MinTableCells == 7

MinGridCells == 5

\* the rows of one table, in order: the entries of those that are kept
RECURSIVE table_rows(_, _)
table_rows(rows, kind) ==
    IF rows = <<>> THEN <<>>
    ELSE LET kept(e) == (IF e = None THEN <<>> ELSE <<e>>) \o table_rows(Tail(rows), kind)
             row == Head(rows)
         IN kept(IF Len(row.cells) >= MinTableCells /\ row.link # None
                 THEN entry(kind, row.link, SubSeq(row.cells, 3, 7))
                 ELSE None)

\* strategy 1: the tables in order; the first matching table that leaves the
\* list not empty ends the search
RECURSIVE table_strategy(_, _, _, _)
table_strategy(tables, word, kind, acc) ==
    IF tables = <<>> THEN [found |-> FALSE, list |-> acc]
    ELSE IF header_has(Head(tables), word)
         THEN LET with(list) ==
                      IF list # <<>> THEN [found |-> TRUE, list |-> list]
                      ELSE table_strategy(Tail(tables), word, kind, list)
              IN with(acc \o table_rows(Head(tables).rows, kind))
         ELSE table_strategy(Tail(tables), word, kind, acc)

\* strategy 2: the grid rows
RECURSIVE grid_rows(_, _)
grid_rows(rows, kind) ==
    IF rows = <<>> THEN <<>>
    ELSE LET kept(e) == (IF e = None THEN <<>> ELSE <<e>>) \o grid_rows(Tail(rows), kind)
             row == Head(rows)
         IN kept(IF row.link # None /\ Len(row.cells) >= MinGridCells
                 THEN entry(kind, row.link, SubSeq(row.cells, 1, 5))
                 ELSE None)

extract_batting(page) ==
    LET after(s1, grid) == IF s1.found THEN s1.list ELSE s1.list \o grid
    IN after(table_strategy(page.tables, <<"B","a","t","t","e","r">>, "bat", <<>>),
             grid_rows(page.bat_grid, "bat"))

extract_bowling(page) ==
    LET after(s1, grid) == IF s1.found THEN s1.list ELSE s1.list \o grid
    IN after(table_strategy(page.tables, <<"B","o","w","l","e","r">>, "bowl", <<>>),
             grid_rows(page.bowl_grid, "bowl"))

(***************************************************************************)
(* Decoded JSON.  null is None, a string Str(s), a number Num(n), an array *)
(* List(items), an object Dict(f), f a function from its keys (texts) to   *)
(* their values.                                                           *)
(***************************************************************************)
List(items) == [t |-> "list", v |-> items]

Dict(f) == [t |-> "dict", v |-> f]

EmptyDict == Dict(<<>>)

\* bool(x)
Truthy(x) ==
    CASE x.t = "none" -> FALSE
      [] x.t = "str" -> x.v # <<>>
      [] x.t = "int" -> x.v # 0
      [] x.t = "float" -> x.v.m # 0
      [] x.t = "list" -> x.v # <<>>
      [] x.t = "dict" -> DOMAIN x.v # {}

\* x[key], key a str
Subscript(x, key) ==
    IF x.t = "dict"
    THEN (IF key \in DOMAIN x.v THEN Return(x.v[key]) ELSE Raise("KeyError"))
    ELSE Raise("TypeError")

\* key in x, key a str
In(key, x) ==
    CASE x.t = "dict" -> Return(key \in DOMAIN x.v)
      [] x.t = "str" -> Return(Contains(x.v, key))
      [] x.t = "list" -> Return(\E i \in 1..Len(x.v) : x.v[i] = Str(key))
      [] OTHER -> Raise("TypeError")

\* x.get(key, default)
Get(x, key, default) ==
    IF x.t = "dict"
    THEN Return(IF key \in DOMAIN x.v THEN x.v[key] ELSE default)
    ELSE Raise("AttributeError")

\* what "for item in x" goes through
Iterate(x) ==
    CASE x.t = "list" -> Return(x.v)
      [] x.t = "str" -> Return([i \in 1..Len(x.v) |-> Str(<<x.v[i]>>)])
      [] x.t = "dict" ->
            \* its keys; the loops of the code fail on the first, which stands for all
            Return(IF DOMAIN x.v = {} THEN <<>>
                   ELSE <<Str(CHOOSE k \in DOMAIN x.v : TRUE)>>)
      [] OTHER -> Raise("TypeError")

\* int(x)
PyInt(x) ==
    CASE x.t = "int" -> Return(x)
      [] x.t = "float" -> Return(Num(x.v.m \div Pow10(x.v.e)))
      [] x.t = "str" -> int(Strip(x.v))
      [] OTHER -> Raise("TypeError")

\* float(x)
PyFloat(x) ==
    CASE x.t = "int" -> Return(Flt(Float(x.v, 0)))
      [] x.t = "float" -> Return(x)
      [] x.t = "str" -> float(Strip(x.v))
      [] OTHER -> Raise("TypeError")

(***************************************************************************)
(* parse_scorecard_from_json                                               *)
(***************************************************************************)
\* the values s[1], s[2], ... are computed in this order: one of them raises
AnyRaise(s) == \E i \in 1..Len(s) : s[i].t = "raise"

\* the first of them that raises
FirstRaise(s) ==
    s[CHOOSE i \in 1..Len(s) : s[i].t = "raise" /\ \A j \in 1..(i - 1) : s[j].t # "raise"]

\* one of runs, balls, ... of a batsman or bowler: conv(b.get(key, 0))
stat(b, key, conv) ==
    LET x == IF key \in DOMAIN b.v THEN b.v[key] ELSE Num(0)
    IN IF conv = "int" THEN PyInt(x) ELSE PyFloat(x)

\* the dict appended for a batsman b
batsman_entry(b) ==
    IF b.t # "dict" THEN Raise("AttributeError")
    ELSE LET made(s) ==
                 IF AnyRaise(s) THEN FirstRaise(s)
                 ELSE Return([name |-> Get(b, <<"b","a","t","N","a","m","e">>, Str(<<>>)).v, runs |-> s[1].v,
                              balls |-> s[2].v, fours |-> s[3].v, sixes |-> s[4].v,
                              sr |-> s[5].v])
         IN made(<< stat(b, <<"r","u","n","s">>, "int"), stat(b, <<"b","a","l","l","s">>, "int"),
                    stat(b, <<"f","o","u","r","s">>, "int"), stat(b, <<"s","i","x","e","s">>, "int"),
                    stat(b, <<"s","t","r","i","k","e","R","a","t","e">>, "float") >>)

\* the dict appended for a bowler b
bowler_entry(b) ==
    IF b.t # "dict" THEN Raise("AttributeError")
    ELSE LET made(s) ==
                 IF AnyRaise(s) THEN FirstRaise(s)
                 ELSE Return([name |-> Get(b, <<"b","o","w","l","N","a","m","e">>, Str(<<>>)).v, overs |-> s[1].v,
                              maidens |-> s[2].v, runs |-> s[3].v, wickets |-> s[4].v,
                              econ |-> s[5].v])
         IN made(<< stat(b, <<"o","v","e","r","s">>, "float"), stat(b, <<"m","a","i","d","e","n","s">>, "int"),
                    stat(b, <<"r","u","n","s">>, "int"), stat(b, <<"w","i","c","k","e","t","s">>, "int"),
                    stat(b, <<"e","c","o","n","o","m","y">>, "float") >>)

\* b of the loop "for b in batsmen" or "for b in bowlers"
player_entry(kind, b) == IF kind = "bat" THEN batsman_entry(b) ELSE bowler_entry(b)

RECURSIVE players(_, _, _)
RECURSIVE append(_, _, _, _)
\* list.append(e) and the rest of the loop; e raised: the loop ends with it
append(items, kind, acc, e) ==
    IF e.t = "raise" THEN e ELSE players(Tail(items), kind, Append(acc, e.v))

\* the loop over the players of one innings: the list with their entries appended
players(items, kind, acc) ==
    IF items = <<>> THEN Return(acc)
    ELSE append(items, kind, acc, player_entry(kind, Head(items)))

\* what "for b in innings.get(team, {}).get(data, [])" goes through
player_items(innings, team, data) ==
    LET details == Get(innings, team, EmptyDict)
        list == Get(details.v, data, List(<<>>))
    IN IF details.t = "raise" THEN details
       ELSE IF list.t = "raise" THEN list
       ELSE Iterate(list.v)

\* the batting or the bowling loop of one innings
innings_players(innings, team, data, kind, acc) ==
    IF player_items(innings, team, data).t = "raise"
    THEN player_items(innings, team, data)
    ELSE players(player_items(innings, team, data).v, kind, acc)

RECURSIVE innings_loop(_, _, _)
RECURSIVE innings_step(_, _, _)
\* bat and bowl: the lists after the two loops of the first of the innings
innings_step(items, bat, bowl) ==
    IF bat.t = "raise" THEN bat
    ELSE IF bowl.t = "raise" THEN bowl
    ELSE innings_loop(Tail(items), bat.v, bowl.v)

\* the loop over the innings: the batting and bowling lists
innings_loop(items, batting, bowling) ==
    IF items = <<>> THEN Return([batting |-> batting, bowling |-> bowling])
    ELSE innings_step(items,
                      innings_players(Head(items), <<"b","a","t","T","e","a","m","D","e","t","a","i","l","s">>, <<"b","a","t","s","m","a","n","D","a","t","a">>,
                                      "bat", batting),
                      innings_players(Head(items), <<"b","o","w","l","T","e","a","m","D","e","t","a","i","l","s">>, <<"b","o","w","l","e","r","D","a","t","a">>,
                                      "bowl", bowling))

\* a revision whose text depends on what the module has logged so far
FormattedTime_mutant(ms) == [t |-> "str", time |-> ms \div 1000 + 60 * tz + log]

\* the local time of the millisecond timestamp ms (datetime.fromtimestamp reads
\* the time zone of the process, tz minutes east of UTC), formatted
\* '%a, %b %d, %I:%M %p'; the text is not computed, the value stands for it
FormattedTime(ms) == [t |-> "str", time |-> ms \div 1000 + 60 * tz]

\* the start time read from matchHeader: a raise, or the returned start_time
json_start_time(header) ==
    LET details == Subscript(header, <<"m","a","t","c","h","D","e","t","a","i","l","s">>)
        has_match == In(<<"m","a","t","c","h">>, details.v)
        match_info == Subscript(details.v, <<"m","a","t","c","h">>)
        has_date == In(<<"s","t","a","r","t","D","a","t","e">>, match_info.v)
        ts == Subscript(match_info.v, <<"s","t","a","r","t","D","a","t","e">>)
    IN IF ~In(<<"m","a","t","c","h","D","e","t","a","i","l","s">>, header).v THEN Return(None)
       ELSE IF has_match.t = "raise" THEN has_match
       ELSE IF ~has_match.v THEN Return(None)
       ELSE IF match_info.t = "raise" THEN match_info
       ELSE IF has_date.t = "raise" THEN has_date
       ELSE IF ~has_date.v THEN Return(None)
       ELSE IF ts.t = "raise" THEN ts
       ELSE IF ~Truthy(ts.v) THEN Return(None)
       \* the bare except: a timestamp int() refuses leaves start_time None
       ELSE IF PyInt(ts.v).t = "raise" THEN Return(None)
       ELSE Return(FormattedTime(PyInt(ts.v).v.v))

\* round(runs / overs, 2), overs > 0: to the nearest hundredth, a tie to the even one
run_rate_of(runs, overs) ==
    LET n == IF runs.t = "int" THEN runs.v * Pow10(overs.v.e) * 100
             ELSE runs.v.m * Pow10(overs.v.e) * 100
        d == IF runs.t = "int" THEN overs.v.m ELSE overs.v.m * Pow10(runs.v.e)
        q == n \div d
        r == n % d
        h == IF 2 * r > d \/ (2 * r = d /\ q % 2 = 1) THEN q + 1 ELSE q
    IN Flt(Float(h, 2))

\* current_score and run_rate, from the first innings
json_score(scorecard) ==
    IF ~Truthy(scorecard) THEN Return([current_score |-> None, run_rate |-> None])
    ELSE LET first == scorecard.v[1]
             details == Get(first, <<"b","a","t","T","e","a","m","D","e","t","a","i","l","s">>, EmptyDict).v
             score_details == Get(details, <<"s","c","o","r","e","D","e","t","a","i","l","s">>, EmptyDict).v
             overs == PyFloat(Get(score_details, <<"o","v","e","r","s">>, Num(0)).v)
             runs == Get(score_details, <<"r","u","n","s">>, Num(0)).v
             score == [team |-> Get(details, <<"t","e","a","m","N","a","m","e">>, Str(<<>>)).v,
                       runs |-> runs,
                       wickets |-> Get(score_details, <<"w","i","c","k","e","t","s">>, Num(0)).v,
                       overs |-> overs.v]
         IN IF ~Truthy(score_details) THEN Return([current_score |-> None, run_rate |-> None])
            ELSE IF score_details.t # "dict" THEN Raise("AttributeError")
            ELSE IF overs.t = "raise" THEN overs
            ELSE IF overs.v.v.m <= 0 THEN Return([current_score |-> score, run_rate |-> None])
            ELSE IF runs.t \notin {"int", "float"} THEN Raise("TypeError")
            ELSE Return([current_score |-> score, run_rate |-> run_rate_of(runs, overs.v)])

\* title, teams, status and start_time, read from matchHeader
header_fields(header) ==
    LET title == Get(header, <<"m","a","t","c","h","D","e","s","c","r","i","p","t","i","o","n">>, Str(<<>>))
        name1 == Get(Get(header, <<"t","e","a","m","1">>, EmptyDict).v, <<"n","a","m","e">>, Str(<<>>))
        name2 == Get(Get(header, <<"t","e","a","m","2">>, EmptyDict).v, <<"n","a","m","e">>, Str(<<>>))
        start_time == json_start_time(header)
    IN IF title.t = "raise" THEN title
       ELSE IF name1.t = "raise" THEN name1
       ELSE IF name2.t = "raise" THEN name2
       ELSE IF start_time.t = "raise" THEN start_time
       ELSE Return([title |-> title.v,
                    teams |-> <<name1.v, name2.v>>,
                    status |-> Get(header, <<"s","t","a","t","u","s">>, Str(<<>>)).v,
                    start_time |-> start_time.v])

\* for innings in match.get('scorecard', []): the batting and bowling lists
match_lists(match) ==
    IF Iterate(Get(match, <<"s","c","o","r","e","c","a","r","d">>, List(<<>>)).v).t = "raise"
    THEN Iterate(Get(match, <<"s","c","o","r","e","c","a","r","d">>, List(<<>>)).v)
    ELSE innings_loop(Iterate(Get(match, <<"s","c","o","r","e","c","a","r","d">>, List(<<>>)).v).v, <<>>, <<>>)

\* the dict returned, head, lists and score computed in this order
scorecard_result(head, lists, score) ==
    IF head.t = "raise" THEN head
    ELSE IF lists.t = "raise" THEN lists
    ELSE IF score.t = "raise" THEN score
    ELSE Return([title |-> head.v.title,
                 teams |-> head.v.teams,
                 status |-> head.v.status,
                 start_time |-> head.v.start_time,
                 current_score |-> score.v.current_score,
                 run_rate |-> score.v.run_rate,
                 batting |-> lists.v.batting,
                 bowling |-> lists.v.bowling])

\* the statements of the try block after header = match['matchHeader']
scorecard_fields(match, header) ==
    scorecard_result(header_fields(header), match_lists(match),
                     json_score(Get(match, <<"s","c","o","r","e","c","a","r","d">>, None).v))

\* match and header of the try block: a raise, None for the "return None", or both
scorecard_of(json_data) ==
    LET top == Subscript(json_data, <<"p","r","o","p","s">>)
        props == Subscript(top.v, <<"p","a","g","e","P","r","o","p","s">>)
        has == In(<<"m","a","t","c","h","S","c","o","r","e","c","a","r","d">>, props.v)
        match == Subscript(props.v, <<"m","a","t","c","h","S","c","o","r","e","c","a","r","d">>)
        header == Subscript(match.v, <<"m","a","t","c","h","H","e","a","d","e","r">>)
    IN IF top.t = "raise" THEN top
       ELSE IF props.t = "raise" THEN props
       ELSE IF has.t = "raise" THEN has
       ELSE IF ~has.v THEN Return(None)
       ELSE IF match.t = "raise" THEN match
       ELSE IF header.t = "raise" THEN header
       ELSE Return([match |-> match.v, header |-> header.v])

\* the try block: what it returns, or the exception it raises
scorecard_try(json_data) ==
    IF scorecard_of(json_data).t = "raise" \/ scorecard_of(json_data).v = None
    THEN scorecard_of(json_data)
    ELSE scorecard_fields(scorecard_of(json_data).v.match, scorecard_of(json_data).v.header)

\* the except clause catches these, logs and returns None; anything else escapes
parse_scorecard_from_json(json_data) ==
    LET except(r) ==
            IF r.t = "raise" /\ r.exc \in {"KeyError", "TypeError", "ValueError"}
            THEN Return(None)
            ELSE r
    IN except(scorecard_try(json_data))

(***************************************************************************)
(* extract_current_score, extract_run_rate,                                *)
(* extract_start_time_from_match_page                                      *)
(***************************************************************************)
Letters == {UpperChars[i] : i \in 1..26} \cup {LowerChars[i] : i \in 1..26}

\* the end of the longest run of characters of S that starts at s[i]; i - 1 when
\* s[i] is not in S
RunEnd(s, i, S) ==
    CHOOSE j \in (i - 1)..Len(s) :
        /\ \A k \in i..j : s[k] \in S
        /\ (j = Len(s) \/ s[j + 1] \notin S)

At(s, i) == IF i \in 1..Len(s) THEN s[i] ELSE ""

\* re.match(r'([A-Za-z]+)\s*(\d+)[/-](\d+)\s*\((\d+\.?\d*)\)', text): the four
\* groups, None when the text does not match
score_match(text) ==
    LET a == RunEnd(text, 1, Letters)
        b == RunEnd(text, a + 1, {" "})
        c == RunEnd(text, b + 1, DecimalDigits)
        d == RunEnd(text, c + 2, DecimalDigits)
        e == RunEnd(text, d + 1, {" "})
        f == RunEnd(text, e + 2, DecimalDigits)
        g == IF At(text, f + 1) = "." THEN RunEnd(text, f + 2, DecimalDigits) ELSE f
    IN IF /\ a >= 1
          /\ c > b
          /\ At(text, c + 1) \in {"/", "-"}
          /\ d > c + 1
          /\ At(text, e + 1) = "("
          /\ f > e + 1
          /\ At(text, g + 1) = ")"
       THEN [team |-> Str(SubSeq(text, 1, a)),
             runs |-> int(SubSeq(text, b + 1, c)).v,
             wickets |-> int(SubSeq(text, c + 2, d)).v,
             overs |-> float(SubSeq(text, e + 2, g)).v]
       ELSE None

\* class_='name': one of the classes of the element is name
HasClass(e, name) == \E i \in 1..Len(Split(e.cls, <<" ">>)) : Split(e.cls, <<" ">>)[i] = name

\* s.strip('()')
RECURSIVE StripParens(_)
StripParens(s) ==
    IF s # <<>> /\ Head(s) \in {"(", ")"} THEN StripParens(Tail(s))
    ELSE IF s # <<>> /\ s[Len(s)] \in {"(", ")"} THEN StripParens(SubSeq(s, 1, Len(s) - 1))
    ELSE s

\* the alternative: a div of classes font-bold, text-xl and flex, the team in a
\* div of class mr-2 and the score in two spans of class mr-2
score_block_score(block) ==
    LET kids == block.kids
        D == {i \in 1..Len(kids) : kids[i].tag = "div" /\ HasClass(kids[i], <<"m","r","-","2">>)}
        team == IF D = {} THEN <<>> ELSE get_text(kids[CHOOSE i \in D : \A j \in D : i <= j])
        S == {i \in 1..Len(kids) : kids[i].tag = "span" /\ HasClass(kids[i], <<"m","r","-","2">>)}
        s1 == CHOOSE i \in S : \A j \in S : i <= j
        s2 == CHOOSE i \in S \ {s1} : \A j \in S \ {s1} : i <= j
        runs_wickets == get_text(kids[s1])
        overs == StripParens(get_text(kids[s2]))
        parts == Split(runs_wickets, <<"-">>)
        runs == IF Contains(runs_wickets, <<"-">>) THEN int_or_zero(parts[1])
                ELSE IF IsDigit(runs_wickets) THEN int(runs_wickets)
                ELSE Return(Num(0))
        wickets == IF Contains(runs_wickets, <<"-">>) THEN int_or_zero(parts[2])
                   ELSE Return(Num(0))
        overs_float == float_or_zero(overs)
    IN IF Cardinality(S) < 2 THEN Return(None)
       ELSE IF runs.t = "raise" THEN runs
       ELSE IF wickets.t = "raise" THEN wickets
       ELSE IF overs_float.t = "raise" THEN overs_float
       ELSE Return([team |-> Str(team), runs |-> runs.v, wickets |-> wickets.v,
                    overs |-> overs_float.v])

extract_current_score(body) ==
    LET els == Flat(body)
        score_elem == FindClass(els, "div", <<"c","b","-","s","c","o","r","e">>)
        score_block == FindFirst(els, {i \in 1..Len(els) :
                                         /\ els[i].tag = "div"
                                         /\ Contains(els[i].cls, <<"f","o","n","t","-","b","o","l","d">>)
                                         /\ Contains(els[i].cls, <<"t","e","x","t","-","x","l">>)
                                         /\ Contains(els[i].cls, <<"f","l","e","x">>)})
    IN IF score_elem # None /\ score_match(get_text(score_elem)) # None
       THEN Return(score_match(get_text(score_elem)))
       ELSE IF score_block # None THEN score_block_score(score_block)
       ELSE Return(None)

\* ---- main.py
\* soup.select_one('div.font-bold.text-xl.flex')
select_block(els) ==
    FindFirst(els, {i \in 1..Len(els) : /\ els[i].tag = "div"
                                        /\ HasClass(els[i], <<"f","o","n","t","-","b","o","l","d">>)
                                        /\ HasClass(els[i], <<"t","e","x","t","-","x","l">>)
                                        /\ HasClass(els[i], <<"f","l","e","x">>)})

\* soup.select_one('div[class*="cb-score"]')
select_score(els) ==
    FindFirst(els, {i \in 1..Len(els) : els[i].tag = "div" /\ Contains(els[i].cls, <<"c","b","-","s","c","o","r","e">>)})

\* soup.select_one('div[class*="cb-col"] span[class*="cb-font-20"]'): the first
\* such span in a div of the body
select_font(body) ==
    FindFirst(Flat(body),
              {n \in 1..Len(Flat(body)) :
                 \E i \in 1..Len(body) : \E j \in 1..Len(body[i].kids) :
                    /\ Len(Flat(SubSeq(body, 1, i - 1))) + 1 + j = n
                    /\ body[i].tag = "div" /\ Contains(body[i].cls, <<"c","b","-","c","o","l">>)
                    /\ body[i].kids[j].tag = "span"
                    /\ Contains(body[i].kids[j].cls, <<"c","b","-","f","o","n","t","-","2","0">>)})

RECURSIVE selector_loop(_)
\* the loop over the selectors, elems what each selects: the first match returns
selector_loop(elems) ==
    IF elems = <<>> THEN None
    ELSE IF Head(elems) # None /\ score_match(get_text(Head(elems))) # None
    THEN score_match(get_text(Head(elems)))
    ELSE selector_loop(Tail(elems))

main_extract_current_score(body) ==
    selector_loop(<<select_block(Flat(body)), select_score(Flat(body)), select_font(body)>>)

\* re.findall(r'\d+\.?\d*', text)[0] as a float; None when the text has no digit
first_number(text) ==
    LET I == {i \in 1..Len(text) : text[i] \in DecimalDigits}
        i == CHOOSE x \in I : \A y \in I : x <= y
        j == RunEnd(text, i, DecimalDigits)
        k == IF At(text, j + 1) = "." THEN RunEnd(text, j + 2, DecimalDigits) ELSE j
    IN IF I = {} THEN None ELSE float(SubSeq(text, i, k)).v

RECURSIVE JoinRaw(_)
\* the strings of the elements, as they are, concatenated
JoinRaw(els) == IF els = <<>> THEN <<>> ELSE Head(els).text \o JoinRaw(Tail(els))

\* page.body[i].kids[j] when j > 0, page.body[i] when j = 0
ElemAt(page, i, j) == IF j = 0 THEN page.body[i] ELSE page.body[i].kids[j]

\* the places of the elements of the body, in document order
Places(page) ==
    {<<i, j>> \in (1..Len(page.body)) \X (0..3) : j <= Len(page.body[i].kids)}

Before(p, q) == p[1] < q[1] \/ (p[1] = q[1] /\ p[2] <= q[2])

\* the first of the places P in document order
FirstPlace(P) == CHOOSE p \in P : \A q \in P : Before(p, q)

\* the texts of the page around the body: the heading comes first
HeadingText(page) == IF page.h1 = None THEN <<>> ELSE page.h1.v

\* parent.get_text() for the element at place p: the parent is the element that
\* holds it, the document itself for a top-level element
ParentText(page, p, strip) ==
    IF p[2] > 0
    THEN (IF strip THEN JoinStripped(page.body[p[1]].kids) ELSE JoinRaw(page.body[p[1]].kids))
    ELSE (IF strip THEN Strip(HeadingText(page)) \o JoinStripped(Flat(page.body))
          ELSE HeadingText(page) \o JoinRaw(Flat(page.body)))

\* the places of the spans whose string contains the text pat, case ignored
SpansWith(page, pat) ==
    {p \in Places(page) :
        /\ ElemAt(page, p[1], p[2]).tag = "span"
        /\ StringOf(ElemAt(page, p[1], p[2])) # None
        /\ Contains(Lower(StringOf(ElemAt(page, p[1], p[2])).v), pat)}

\* re.compile(r'CRR:\s*\d+\.?\d*', re.I).search(s)
MatchesCrrNumber(s) ==
    LET l == Lower(s)
    IN \E i \in 1..Len(l) :
          /\ i + 3 <= Len(l)
          /\ SubSeq(l, i, i + 3) = <<"c","r","r",":">>
          /\ At(l, RunEnd(l, i + 4, {" "}) + 1) \in DecimalDigits

extract_run_rate(page) ==
    LET C == SpansWith(page, <<"c","r","r">>)
        first == first_number(ParentText(page, FirstPlace(C), FALSE))
        N == {p \in C : MatchesCrrNumber(StringOf(ElemAt(page, p[1], p[2])).v)}
        crr_span == ElemAt(page, FirstPlace(N)[1], FirstPlace(N)[2])
    IN IF C # {} /\ first # None THEN first
       ELSE IF N # {} THEN first_number(crr_span.text)
       ELSE None

\* re.compile(r'\d{1,2}:\d{2}\s*(AM|PM)', re.I).search(s)
MatchesTime(s) ==
    LET l == Lower(s)
    IN \E i \in 2..Len(l) :
          /\ l[i] = ":"
          /\ l[i - 1] \in DecimalDigits
          /\ At(l, i + 1) \in DecimalDigits
          /\ At(l, i + 2) \in DecimalDigits
          /\ LET j == RunEnd(l, i + 3, {" "})
             IN j + 2 <= Len(l) /\ SubSeq(l, j + 1, j + 2) \in { <<"a","m">>, <<"p","m">> }

extract_start_time_from_match_page(page) ==
    LET D == SpansWith(page, <<"d","a","t","e"," ","&"," ","t","i","m","e",":">>)
        full_text == ParentText(page, FirstPlace(D), TRUE)
        T == {p \in Places(page) : MatchesTime(ElemAt(page, p[1], p[2]).text)}
    IN IF D # {} THEN Str(Strip(Replace(full_text, <<"D","a","t","e"," ","&"," ","T","i","m","e",":">>, <<>>)))
       ELSE IF MatchesTime(HeadingText(page)) THEN Str(Strip(HeadingText(page)))
       ELSE IF T # {} THEN Str(Strip(ElemAt(page, FirstPlace(T)[1], FirstPlace(T)[2]).text))
       ELSE None

(***************************************************************************)
(* extract_json_data, extract_match_data                                   *)
(* A match page is [script, h1, body, tables, bat_grid, bowl_grid]: script *)
(* is the string of the __NEXT_DATA__ script, None when the page has none, *)
(* h1 the text of the first heading, None when the page has none.  The     *)
(* script string is [text, value]: text is "empty", "undecodable" or       *)
(* "json", value what json.loads gives for it.                             *)
(***************************************************************************)
extract_json_data(page) ==
    IF page.script # None /\ page.script.text = "json" THEN page.script.value ELSE None

Fallback == <<"M","a","t","c","h"," ","S","t","a","t","s"," ","w","i","l","l"," ","U","p","d","a","t","e"," ","S","o","o","n",".",".",".">>

\* title.split(' vs '), then the text before the first comma of the first two parts
teams_of(title) ==
    LET parts == Split(title, <<" ","v","s"," ">>)
    IN << Str(Strip(Split(parts[1], <<",">>)[1])), Str(Strip(Split(parts[2], <<",">>)[1])) >>

html_title(page) ==
    IF page.h1 = None THEN None
    ELSE IF Strip(page.h1.v) = <<>> THEN Str(<<>>)
    ELSE Str(Strip(Replace(Replace(Strip(page.h1.v), <<","," ","C","o","m","m","e","n","t","a","r","y">>, <<>>),
                           <<" ","-"," ","S","c","o","r","e","c","a","r","d">>, <<>>)))

\* a revision that leaves the status as the rules gave it, None included
html_result_mutant(page, status, current_score) ==
    IF current_score.t = "raise" THEN current_score
    ELSE Return([title |-> html_title(page),
                 teams |-> IF Truthy(html_title(page)) /\ Contains(html_title(page).v, <<" ","v","s"," ">>)
                           THEN teams_of(html_title(page).v) ELSE <<>>,
                 status |-> status,
                 start_time |-> extract_start_time_from_match_page(page),
                 current_score |-> current_score.v,
                 run_rate |-> extract_run_rate(page),
                 batting |-> extract_batting(page),
                 bowling |-> extract_bowling(page)])

\* the dict of the HTML parsing, its status and its score given
html_result(page, status, current_score) ==
    IF current_score.t = "raise" THEN current_score
    ELSE Return([title |-> html_title(page),
                 teams |-> IF Truthy(html_title(page)) /\ Contains(html_title(page).v, <<" ","v","s"," ">>)
                           THEN teams_of(html_title(page).v) ELSE <<>>,
                 status |-> IF Truthy(status) THEN status ELSE Str(Fallback),
                 start_time |-> extract_start_time_from_match_page(page),
                 current_score |-> current_score.v,
                 run_rate |-> extract_run_rate(page),
                 batting |-> extract_batting(page),
                 bowling |-> extract_bowling(page)])

\* the HTML parsing of extract_match_data
html_match_data(page) ==
    html_result(page, extract_match_status_from_match_page(page.body),
                extract_current_score(page.body))

\* data: what the JSON reading gave, Return(None) when there was none
json_or_html(page, data) ==
    IF data.t = "raise" \/ data.v # None THEN data ELSE html_match_data(page)

extract_match_data(page) ==
    json_or_html(page, IF Truthy(extract_json_data(page))
                       THEN parse_scorecard_from_json(extract_json_data(page))
                       ELSE Return(None))

(***************************************************************************)
(* extract_live_matches, in scraper.py and in main.py                     *)
(* A listing document is a sequence of items [div, link, extras]: div is   *)
(* the class of the div around the item, None when there is none, link the *)
(* a element in it, None when there is none, extras the other elements of  *)
(* the div.  A link is [href, title, kids]: the two attributes, None when  *)
(* absent, and the spans and strings in the link.                          *)
(***************************************************************************)
LinkPrefix == <<"/","l","i","v","e","-","c","r","i","c","k","e","t","-","s","c","o","r","e","s","/">>

\* re.search(r'/live-cricket-scores/(\d+)', href): the number, None without a match
match_id(href) ==
    LET n == Len(LinkPrefix)
        I == {i \in 1..Len(href) :
                /\ i + n <= Len(href)
                /\ SubSeq(href, i, i + n - 1) = LinkPrefix
                /\ href[i + n] \in DecimalDigits}
        i == CHOOSE x \in I : \A y \in I : x <= y
    IN IF I = {} THEN None
       ELSE Num(DigitsToInt(SubSeq(href, i + n, RunEnd(href, i + n, DecimalDigits))))

\* soup.find_all('a', href=re.compile(r'/live-cricket-scores/\d+')): their items
all_links(doc) ==
    SelectSeq(doc, LAMBDA it : /\ it.link # None
                               /\ it.link.href # None
                               /\ match_id(it.link.href.v) # None)

\* the texts of the elements that have one, stripped
RECURSIVE names(_)
names(spans) ==
    IF spans = <<>> THEN <<>>
    ELSE (IF Strip(Head(spans).text) = <<>> THEN <<>> ELSE <<Str(Strip(Head(spans).text))>>)
         \o names(Tail(spans))

SpansOfClass(kids, frag) ==
    SelectSeq(kids, LAMBDA e : e.tag = "span" /\ e.cls # <<>> /\ Contains(e.cls, frag))

\* re.sub(r'\s+-\s+.*$', '', title)
clean_title(title) ==
    LET I == {i \in 2..(Len(title) - 1) :
                title[i] = "-" /\ title[i - 1] = " " /\ title[i + 1] = " "}
        i == CHOOSE x \in I : \A y \in I : x <= y
        start == CHOOSE j \in 1..i :
                    /\ \A k \in j..(i - 1) : title[k] = " "
                    /\ (j = 1 \/ title[j - 1] # " ")
    IN IF I = {} THEN title ELSE SubSeq(title, 1, start - 1)

AnyIn(words, text) == \E w \in words : Contains(text, w)

\* re.compile(r'\d{1,2}:\d{2}\s*(AM|PM)|Today|Tomorrow', re.I).search(s)
MatchesSchedule(s) ==
    MatchesTime(s) \/ Contains(Lower(s), <<"t","o","d","a","y">>) \/ Contains(Lower(s), <<"t","o","m","o","r","r","o","w">>)

link_title(link) ==
    IF link.title # None /\ Strip(link.title.v) # <<>> THEN Strip(link.title.v)
    ELSE JoinStripped(link.kids)

link_teams(link, title) ==
    LET full == names(SpansOfClass(link.kids, <<"h","i","d","d","e","n"," ","w","b",":","b","l","o","c","k">>))
        short == names(SpansOfClass(link.kids, <<"b","l","o","c","k"," ","w","b",":","h","i","d","d","e","n">>))
    IN IF full # <<>> THEN full
       ELSE IF short # <<>> THEN short
       ELSE IF Contains(title, <<" ","v","s"," ">>) /\ Contains(clean_title(title), <<" ","v","s"," ">>)
            THEN teams_of(clean_title(title))
       ELSE <<>>

\* a revision that looks for the keywords of 'Live' before those of 'Completed'
link_status_mutant(link, title) ==
    LET live == SelectSeq(link.kids, LAMBDA e : e.tag = "span" /\ HasClass(e, <<"c","b","P","l","u","s","L","i","v","e","T","a","g">>))
        result == SpansOfClass(link.kids, <<"t","e","x","t","-","c","b","C","o","m","p","l","e","t","e">>)
        result_text == Strip(result[1].text)
        lower_title == Lower(title)
    IN IF live # <<>> THEN <<"L","i","v","e">>
       ELSE IF result # <<>>
            THEN (IF AnyIn({ <<"w","o","n">>, <<"w","i","n">>, <<"c","o","m","p","l","e","t","e">> }, Lower(result_text))
                  THEN <<"C","o","m","p","l","e","t","e","d">> ELSE result_text)
       ELSE IF AnyIn({ <<"o","p","t"," ","t","o">>, <<"t","o","s","s">>, <<"s","t","u","m","p","s">>, <<"l","u","n","c","h">>, <<"t","e","a">>, <<"d","a","y">>,
                       <<"i","n","n","i","n","g","s"," ","b","r","e","a","k">>, <<"n","e","e","d">>, <<"r","e","q","u","i","r","e">>, <<"t","r","a","i","l">>, <<"l","e","a","d">> }, lower_title)
            THEN <<"L","i","v","e">>
       ELSE IF AnyIn({ <<"w","o","n">>, <<"c","o","m","p","l","e","t","e">>, <<"m","a","t","c","h"," ","d","r","a","w","n">>, <<"a","b","a","n","d","o","n","e","d">> }, lower_title)
            THEN <<"C","o","m","p","l","e","t","e","d">>
       ELSE <<"U","p","c","o","m","i","n","g">>

link_status(link, title) ==
    LET live == SelectSeq(link.kids, LAMBDA e : e.tag = "span" /\ HasClass(e, <<"c","b","P","l","u","s","L","i","v","e","T","a","g">>))
        result == SpansOfClass(link.kids, <<"t","e","x","t","-","c","b","C","o","m","p","l","e","t","e">>)
        result_text == Strip(result[1].text)
        lower_title == Lower(title)
    IN IF live # <<>> THEN <<"L","i","v","e">>
       ELSE IF result # <<>>
            THEN (IF AnyIn({ <<"w","o","n">>, <<"w","i","n">>, <<"c","o","m","p","l","e","t","e">> }, Lower(result_text))
                  THEN <<"C","o","m","p","l","e","t","e","d">> ELSE result_text)
       ELSE IF AnyIn({ <<"w","o","n">>, <<"c","o","m","p","l","e","t","e">>, <<"m","a","t","c","h"," ","d","r","a","w","n">>, <<"a","b","a","n","d","o","n","e","d">> }, lower_title)
            THEN <<"C","o","m","p","l","e","t","e","d">>
       ELSE IF AnyIn({ <<"o","p","t"," ","t","o">>, <<"t","o","s","s">>, <<"s","t","u","m","p","s">>, <<"l","u","n","c","h">>, <<"t","e","a">>, <<"d","a","y">>,
                       <<"i","n","n","i","n","g","s"," ","b","r","e","a","k">>, <<"n","e","e","d">>, <<"r","e","q","u","i","r","e">>, <<"t","r","a","i","l">>, <<"l","e","a","d">> }, lower_title)
            THEN <<"L","i","v","e">>
       ELSE <<"U","p","c","o","m","i","n","g">>

\* the text of the first span of class sch-date among the elements, None without one
sch_date(els) ==
    LET dates == SelectSeq(els, LAMBDA e : e.tag = "span" /\ HasClass(e, <<"s","c","h","-","d","a","t","e">>))
    IN IF dates = <<>> THEN None ELSE Str(Strip(dates[1].text))

link_start_time(link) ==
    LET times == SelectSeq(link.kids, LAMBDA e : MatchesSchedule(e.text))
    IN IF sch_date(link.kids) # None THEN sch_date(link.kids)
       ELSE IF times # <<>> THEN Str(Strip(times[1].text))
       ELSE None

\* the dict appended for a link
link_entry(link) ==
    LET title == link_title(link)
    IN [id |-> match_id(link.href.v).v,
        teams |-> link_teams(link, title),
        title |-> Str(title),
        status |-> Str(link_status(link, title)),
        start_time |-> link_start_time(link)]

RECURSIVE link_entries(_)
link_entries(items) ==
    IF items = <<>> THEN <<>>
    ELSE <<link_entry(Head(items).link)>> \o link_entries(Tail(items))

\* what a revision without the removal of duplicates returns
unique_mutant(matches, acc) == acc \o matches

RECURSIVE unique_last(_, _)
\* a revision in which a later link of an id moves the entry to the end
unique_last(matches, acc) ==
    IF matches = <<>> THEN acc
    ELSE unique_last(Tail(matches),
                     Append(SelectSeq(acc, LAMBDA m : m.id # Head(matches).id),
                            Head(matches)))

RECURSIVE unique(_, _)
\* the loop that fills unique, and list(unique.values()): the first entry of an
\* id stays
unique(matches, acc) ==
    IF matches = <<>> THEN acc
    ELSE unique(Tail(matches),
                IF \E i \in 1..Len(acc) : acc[i].id = Head(matches).id
                THEN acc ELSE Append(acc, Head(matches)))

extract_live_matches(doc) == unique(link_entries(all_links(doc)), <<>>)

\* ---- main.py
\* soup.find_all('div', class_='cb-mtch-blk')
match_blocks(doc) == SelectSeq(doc, LAMBDA it : it.div # None /\ HasClass([cls |-> it.div.v], <<"c","b","-","m","t","c","h","-","b","l","k">>))

\* the elements in the div of an item: those of its link, then the others
Inside(it) == (IF it.link = None THEN <<>> ELSE it.link.kids) \o it.extras

\* r'won by|win by', case ignored
MatchesWon(s) == Contains(Lower(s), <<"w","o","n"," ","b","y">>) \/ Contains(Lower(s), <<"w","i","n"," ","b","y">>)

\* the status read in the elements of a block or of a parent div
block_status(els) ==
    IF \E i \in 1..Len(els) : els[i].tag = "span" /\ Contains(els[i].cls, <<"c","b","-","p","l","u","s","-","l","i","v","e","-","t","a","g">>)
    THEN <<"L","i","v","e">>
    ELSE IF \E i \in 1..Len(els) : els[i].tag = "div" /\ Contains(els[i].cls, <<"c","b","-","t","e","x","t","-","c","o","m","p","l","e","t","e">>)
    THEN <<"C","o","m","p","l","e","t","e","d">>
    ELSE IF \E i \in 1..Len(els) : /\ els[i].tag = "div"
                                   /\ StringOf(els[i]) # None
                                   /\ MatchesWon(StringOf(els[i]).v)
    THEN <<"C","o","m","p","l","e","t","e","d">>
    ELSE <<"U","p","c","o","m","i","n","g">>

\* [t.strip() for t in title.split(' vs ')[:2]]
first_two(title) ==
    << Str(Strip(Split(title, <<" ","v","s"," ">>)[1])), Str(Strip(Split(title, <<" ","v","s"," ">>)[2])) >>

\* method 2: the dict of a link, parent the div around it
fallback_entry(it) ==
    LET title == JoinStripped(it.link.kids)
        parent == it.div # None /\ (Contains(it.div.v, <<"c","b","-","c","o","l">>) \/ Contains(it.div.v, <<"c","b","-","m","t","c","h","-","b","l","k">>))
    IN [id |-> match_id(it.link.href.v).v,
        title |-> Str(title),
        status |-> Str(IF parent THEN block_status(Inside(it)) ELSE <<"U","p","c","o","m","i","n","g">>),
        teams |-> IF Contains(title, <<" ","v","s"," ">>) THEN first_two(title) ELSE <<>>,
        start_time |-> IF parent THEN sch_date(Inside(it)) ELSE None]

\* method 1: the dict of a block whose link has a match id
block_entry(it) ==
    LET tags == SpansOfClass(it.link.kids, <<"t","e","x","t","-","h","v","r","-","u","n","d","e","r","l","i","n","e">>)
        title == IF tags # <<>> THEN Strip(tags[1].text) ELSE JoinStripped(it.link.kids)
    IN [id |-> match_id(it.link.href.v).v,
        teams |-> IF Contains(title, <<" ","v","s"," ">>) THEN teams_of(title) ELSE <<>>,
        title |-> Str(title),
        status |-> Str(block_status(Inside(it))),
        start_time |-> sch_date(Inside(it))]

RECURSIVE main_entries(_, _)
main_entries(items, method) ==
    IF items = <<>> THEN <<>>
    ELSE <<IF method = 1 THEN block_entry(Head(items)) ELSE fallback_entry(Head(items))>>
         \o main_entries(Tail(items), method)

RECURSIVE main_unique(_, _)
\* {m['id']: m for m in matches}, and list(unique.values()): the last entry of an
\* id, at the place of the first
main_unique(matches, acc) ==
    IF matches = <<>> THEN acc
    ELSE LET I == {i \in 1..Len(acc) : acc[i].id = Head(matches).id}
         IN main_unique(Tail(matches),
                        IF I = {} THEN Append(acc, Head(matches))
                        ELSE [acc EXCEPT ![CHOOSE i \in I : TRUE] = Head(matches)])

main_extract_live_matches(doc) ==
    LET blocks == match_blocks(doc)
        linked == SelectSeq(blocks, LAMBDA it : /\ it.link # None
                                                /\ it.link.href # None
                                                /\ match_id(it.link.href.v) # None)
    IN IF blocks = <<>> THEN main_unique(main_entries(all_links(doc), 2), <<>>)
       ELSE main_unique(main_entries(linked, 1), <<>>)


\* ---------------------------------------------------------------- calls
(***************************************************************************)
(* The inputs: what the HTTP client does, the texts and the documents      *)
(***************************************************************************)
RequestExceptions == {"ConnectTimeout", "ReadTimeout", "Timeout", "SSLError", "ProxyError",
                      "ConnectionError", "TooManyRedirects", "MissingSchema", "ValueError"}

ResponseStatuses == {200, 201, 204, 299, 304, 400, 404, 429, 500, 503, 599}

FetchOutcomes ==
    {[exc |-> e, status |-> 0] : e \in RequestExceptions}
    \cup {[exc |-> "none", status |-> n] : n \in ResponseStatuses}

\* the number of words of a status text
MaxWords == 2

\* 55 and 56 characters: with " Live" after them, 60 and 61
Filler55 == <<"z","z","z","z","z","z","z","z","z","z","z","z","z","z","z","z","z","z","z","z","z","z","z","z","z","z","z","z","z","z","z","z","z","z","z","z","z","z","z","z","z","z","z","z","z","z","z","z","z","z","z","z","z","z","z">>

Filler56 == <<"z","z","z","z","z","z","z","z","z","z","z","z","z","z","z","z","z","z","z","z","z","z","z","z","z","z","z","z","z","z","z","z","z","z","z","z","z","z","z","z","z","z","z","z","z","z","z","z","z","z","z","z","z","z","z","z">>

StatusWords == { <<"L","i","v","e">>, <<"w","o","n">>, <<"I","n","d","i","a">>, <<"V","i","d","e","o","s">>, <<"M","o","r","e">>, <<"R","a","n","k","i","n","g","s">>,
                 <<"p","o","i","n","t">>, <<"f","u","l","l"," ","t","o","s","s">>, Filler55, Filler56 }

RECURSIVE JoinWords(_)
\* " ".join(ws)
JoinWords(ws) ==
    IF ws = <<>> THEN <<>>
    ELSE IF Len(ws) = 1 THEN ws[1]
    ELSE ws[1] \o <<" ">> \o JoinWords(Tail(ws))

StatusTexts == {JoinWords(ws) : ws \in UNION {[1..k -> StatusWords] : k \in 0..MaxWords}}

\* the number of top-level elements of a match page
MaxElems == 2

StatusElems ==
    { Elem("span", <<"c","b","-","p","l","u","s","-","l","i","v","e","-","t","a","g">>, <<"L","I","V","E">>),
      Elem("div", <<"c","b","-","t","e","x","t","-","c","o","m","p","l","e","t","e">>, <<"I","n","d","i","a"," ","w","o","n"," ","b","y"," ","5"," ","r","u","n","s">>),
      Elem("div", <<"c","b","-","t","e","x","t","-","i","n","p","r","o","g","r","e","s","s">>, <<"D","a","y"," ","2">>),
      Elem("div", <<>>, <<" ","I","n","d","i","a"," ","o","p","t"," ","t","o"," ","b","a","t"," ">>),
      Elem("div", <<>>, <<"f","u","l","l"," ","t","o","s","s",","," ","I","n","d","i","a"," ","o","p","t"," ","t","o"," ","f","i","e","l","d">>),
      Elem("span", <<>>, <<"I","n","d","i","a"," ","o","p","t"," ","t","o"," ","b","a","t">>),
      Elem("div", <<>>, <<"A","u","s"," ","w","o","n"," ","b","y"," ","3"," ","w","i","c","k","e","t","s">>),
      Elem("div", <<>>, <<"p","u","l","l","e","d",":"," ","I","n","d","i","a"," ","w","o","n"," ","b","y"," ","1","2"," ","r","u","n","s">>),
      Elem("div", <<>>, <<"S","t","u","m","p","s">>),
      Elem("div", <<>>, <<"L","u","n","c","h">>),
      Elem("div", <<"c","b","-","t","e","x","t","-","p","r","e","v","i","e","w">>, <<"P","r","e","v","i","e","w">>),
      Parent("div", <<"c","b","-","c","o","l"," ","c","b","-","c","o","l","-","1","0","0"," ","c","b","-","m","i","n","i","s","c","r","o","l","l">>,
             <<Elem("span", <<>>, <<"M","a","t","c","h"," ","i","n","f","o">>), Elem("span", <<>>, <<"R","a","i","n"," ","s","t","o","p","p","e","d"," ","p","l","a","y">>)>>),
      Parent("div", <<"c","b","-","c","o","l","-","1","0","0"," ","c","b","-","m","i","n","i","s","c","r","o","l","l">>, <<Elem("span", <<>>, <<"S","c","o","r","e","c","a","r","d">>)>>) }

StatusDocs == UNION {[1..k -> StatusElems] : k \in 0..MaxElems}

\* the number of characters of the text of a statistic cell
MaxCellLen == 3

CellChars == {"1", ".", "-", "sup2", "ar3"}

CellTexts ==
    UNION {[1..k -> CellChars] : k \in 0..MaxCellLen}
    \cup { <<"1",".","2",".","3">>, <<"1","2",".","5","0">>, <<"1","0","0">>, <<" ","4","5"," ">>, <<"a","b","c">> }

\* a row whose i-th statistic cell holds t
RowWith(name, i, t) ==
    [link |-> Str(name),
     cells |-> <<name, <<"c"," ","a","n","d"," ","b">>>> \o [k \in 1..5 |-> IF k = i THEN t ELSE <<"7">>]]

GridRowWith(name, i, t) ==
    [link |-> Str(name), cells |-> [k \in 1..5 |-> IF k = i THEN t ELSE <<"7">>]]

BatHeader == << <<"B","a","t","t","e","r">>, <<>>, <<"R">>, <<"B">>, <<"4","s">>, <<"6","s">>, <<"S","R">> >>

BowlHeader == << <<"B","o","w","l","e","r">>, <<>>, <<"O">>, <<"M">>, <<"R">>, <<"W">>, <<"E","C","O">> >>

\* rows the code skips: no link to a profile, too few cells
ExtrasRow == [link |-> None, cells |-> << <<"E","x","t","r","a","s">>, <<>>, <<"9">>, <<>>, <<>>, <<>>, <<>> >>]

ShortRow == [link |-> Str(<<"S","h","o","r","t">>), cells |-> << <<"S","h","o","r","t">>, <<>>, <<"1">>, <<"2">>, <<"3">>, <<"4">> >>]

\* a page with the two tables; the first row of each has t in its i-th statistic cell
TablePage(i, t) ==
    [tables |-> << [header |-> BatHeader,
                    rows |-> <<RowWith(<<"K","o","h","l","i"," ","*">>, i, t), ExtrasRow, RowWith(<<"G","i","l","l">>, 1, <<"3","0">>)>>],
                   [header |-> BowlHeader,
                    rows |-> <<RowWith(<<"S","t","a","r","c">>, i, t), ShortRow, RowWith(<<"L","y","o","n">>, 1, <<"4",".","2">>)>>] >>,
     bat_grid |-> <<>>,
     bowl_grid |-> <<>>]

\* a page with no table, and the rows as grids of divs
GridPage(i, t) ==
    [tables |-> << [header |-> << <<"F","a","l","l"," ","o","f"," ","W","i","c","k","e","t","s">> >>, rows |-> <<RowWith(<<"K","o","h","l","i">>, 1, <<"1">>)>>] >>,
     bat_grid |-> <<GridRowWith(<<"K","o","h","l","i"," ","*">>, i, t), GridRowWith(<<"G","i","l","l">>, 1, <<"3","0">>)>>,
     bowl_grid |-> <<GridRowWith(<<"S","t","a","r","c">>, i, t), GridRowWith(<<"L","y","o","n">>, 1, <<"4",".","2">>)>>]

\* pages in which a player has two rows
RepeatPages ==
    { [tables |-> << [header |-> BatHeader,
                      rows |-> <<RowWith(<<"K","o","h","l","i">>, 1, <<"5","2">>), RowWith(<<"G","i","l","l">>, 1, <<"3","0">>),
                                 RowWith(<<"K","o","h","l","i"," ","*">>, 1, <<"1","2">>)>>],
                     [header |-> BowlHeader,
                      rows |-> <<RowWith(<<"S","t","a","r","c">>, 1, <<"4">>), RowWith(<<"L","y","o","n">>, 1, <<"4",".","2">>),
                                 RowWith(<<" ","S","t","a","r","c"," ">>, 1, <<"2">>)>>] >>,
       bat_grid |-> <<>>,
       bowl_grid |-> <<>>],
      [tables |-> <<>>,
       bat_grid |-> <<GridRowWith(<<"G","i","l","l">>, 1, <<"3","0">>), GridRowWith(<<"K","o","h","l","i">>, 1, <<"5","2">>),
                      GridRowWith(<<"G","i","l","l">>, 1, <<"4">>)>>,
       bowl_grid |-> <<GridRowWith(<<"L","y","o","n">>, 1, <<"4",".","2">>), GridRowWith(<<"L","y","o","n">>, 1, <<"3">>)>>] }

ScorecardPages ==
    {TablePage(i, t) : i \in 1..5, t \in CellTexts}
    \cup {GridPage(i, t) : i \in 1..5, t \in CellTexts}
    \cup RepeatPages

\* ---- match pages
Absent == [t |-> "absent"]

\* what stands at a place of the payload in place of the value the site sends
Junk ==
    {None, Str(<<>>), Str(<<"x">>), Str(<<"m","a","t","c","h","S","c","o","r","e","c","a","r","d"," ","m","a","t","c","h"," ","s","t","a","r","t","D","a","t","e">>), Str(<<"1","2">>),
     Num(0), Num(7), Flt(Float(25, 1)), List(<<>>), List(<<Str(<<"x">>)>>), EmptyDict, Absent}

Slots ==
    {"root", "props", "pageProps", "matchScorecard", "matchHeader", "matchDescription",
     "team1", "name", "status", "matchDetails", "match", "startDate", "scorecard",
     "innings", "batTeamDetails", "batsmanData", "batsman", "runs", "strikeRate",
     "scoreDetails", "score_runs", "score_overs", "bowlTeamDetails", "bowlerData",
     "bowler", "economy", "again"}

\* the value at place slot of the payload in which s holds j
Val(slot, s, j, orig) == IF s = slot THEN j ELSE orig

\* the key of place slot with its value, nothing when the payload lacks the key
Key(key, slot, s, j, orig) ==
    IF s = slot /\ j = Absent THEN <<>> ELSE key :> Val(slot, s, j, orig)

\* the payload of a scorecard page, with j at place s; at place "again" the
\* innings comes a second time
Payload(s, j) ==
    LET K(key, slot, orig) == Key(key, slot, s, j, orig)
        batsman == Dict(<<"b","a","t","N","a","m","e">> :> Str(<<"K","o","h","l","i">>)
                        @@ K(<<"r","u","n","s">>, "runs", Num(52)) @@ <<"b","a","l","l","s">> :> Num(40)
                        @@ <<"f","o","u","r","s">> :> Num(6) @@ <<"s","i","x","e","s">> :> Num(1)
                        @@ K(<<"s","t","r","i","k","e","R","a","t","e">>, "strikeRate", Str(<<"1","3","0",".","0">>)))
        bowler == Dict(<<"b","o","w","l","N","a","m","e">> :> Str(<<"S","t","a","r","c">>) @@ <<"o","v","e","r","s">> :> Num(4)
                       @@ <<"m","a","i","d","e","n","s">> :> Num(0) @@ <<"r","u","n","s">> :> Num(31)
                       @@ <<"w","i","c","k","e","t","s">> :> Num(2)
                       @@ K(<<"e","c","o","n","o","m","y">>, "economy", Flt(Float(775, 2))))
        score_details == Dict(K(<<"r","u","n","s">>, "score_runs", Num(180)) @@ <<"w","i","c","k","e","t","s">> :> Num(5)
                              @@ K(<<"o","v","e","r","s">>, "score_overs", Flt(Float(200, 1))))
        bat == Dict(<<"t","e","a","m","N","a","m","e">> :> Str(<<"I","N","D">>)
                    @@ K(<<"s","c","o","r","e","D","e","t","a","i","l","s">>, "scoreDetails", score_details)
                    @@ K(<<"b","a","t","s","m","a","n","D","a","t","a">>, "batsmanData",
                         List(<<Val("batsman", s, j, batsman)>>)))
        bowl == Dict(K(<<"b","o","w","l","e","r","D","a","t","a">>, "bowlerData", List(<<Val("bowler", s, j, bowler)>>)))
        innings == Dict(K(<<"b","a","t","T","e","a","m","D","e","t","a","i","l","s">>, "batTeamDetails", bat)
                        @@ K(<<"b","o","w","l","T","e","a","m","D","e","t","a","i","l","s">>, "bowlTeamDetails", bowl))
        match_info == Dict(K(<<"s","t","a","r","t","D","a","t","e">>, "startDate", Num(1700000000)))
        header == Dict(K(<<"m","a","t","c","h","D","e","s","c","r","i","p","t","i","o","n">>, "matchDescription", Str(<<"I","N","D"," ","v","s"," ","A","U","S",","," ","1","s","t"," ","T","2","0","I">>))
                       @@ K(<<"t","e","a","m","1">>, "team1", Dict(K(<<"n","a","m","e">>, "name", Str(<<"I","n","d","i","a">>))))
                       @@ <<"t","e","a","m","2">> :> Dict(<<"n","a","m","e">> :> Str(<<"A","u","s","t","r","a","l","i","a">>))
                       @@ K(<<"s","t","a","t","u","s">>, "status", Str(<<"I","n","d","i","a"," ","w","o","n"," ","b","y"," ","5"," ","r","u","n","s">>))
                       @@ K(<<"m","a","t","c","h","D","e","t","a","i","l","s">>, "matchDetails",
                            Dict(K(<<"m","a","t","c","h">>, "match", match_info))))
        scorecard == Dict(K(<<"m","a","t","c","h","H","e","a","d","e","r">>, "matchHeader", header)
                          @@ K(<<"s","c","o","r","e","c","a","r","d">>, "scorecard",
                               List(<<Val("innings", s, j, innings)>>
                                    \o IF s = "again" THEN <<innings>> ELSE <<>>)))
        page_props == Dict(K(<<"m","a","t","c","h","S","c","o","r","e","c","a","r","d">>, "matchScorecard", scorecard))
        props == Dict(K(<<"p","a","g","e","P","r","o","p","s">>, "pageProps", page_props))
    IN Val("root", s, j, Dict(K(<<"p","r","o","p","s">>, "props", props)))

\* json.loads gives no Absent: a list item or the document is there
Payloads ==
    {Payload(s, j) : <<s, j>> \in
        {x \in Slots \X Junk :
            x[2] = Absent => x[1] \notin {"root", "innings", "batsman", "bowler"}}}

\* the __NEXT_DATA__ script of a page: none, without a string, with a string that
\* is no JSON, with the JSON text of a payload
Scripts ==
    {None, [text |-> "empty", value |-> None], [text |-> "undecodable", value |-> None]}
    \cup {[text |-> "json", value |-> v] : v \in Payloads}

Headings ==
    {None, Str(<<>>), Str(<<","," ","C","o","m","m","e","n","t","a","r","y">>), Str(<<"I","N","D"," ","v","s"," ","A","U","S",","," ","1","s","t"," ","T","2","0","I",","," ","C","o","m","m","e","n","t","a","r","y">>),
     Str(<<" ","I","n","d","i","a"," ","v","s"," ","A","u","s","t","r","a","l","i","a"," ","-"," ","S","c","o","r","e","c","a","r","d"," ">>), Str(<<"L","i","v","e"," ","C","r","i","c","k","e","t"," ","S","c","o","r","e">>)}

MatchElems ==
    { Elem("div", <<"c","b","-","s","c","o","r","e">>, <<"I","N","D"," ","1","8","0","/","5"," ","(","2","0",")">>),
      Elem("div", <<"c","b","-","s","c","o","r","e">>, <<"I","N","D"," ","1","8","0","/","5">>),
      Parent("div", <<"f","l","e","x"," ","f","o","n","t","-","b","o","l","d"," ","t","e","x","t","-","x","l">>,
             << Elem("div", <<"m","r","-","2">>, <<"I","N","D">>), Elem("span", <<"m","r","-","2">>, <<"1","8","0","-","5">>),
                Elem("span", <<"m","r","-","2">>, <<"(","2","0",".","0",")">>) >>),
      Parent("div", <<"f","l","e","x"," ","f","o","n","t","-","b","o","l","d"," ","t","e","x","t","-","x","l">>,
             << Elem("span", <<"m","r","-","2">>, <<"sup2">>), Elem("span", <<"m","r","-","2">>, <<"(","1",".","2",".","3",")">>) >>),
      Parent("div", <<"f","l","e","x"," ","f","o","n","t","-","b","o","l","d"," ","t","e","x","t","-","x","l">>,
             << Elem("span", <<"m","r","-","2">>, <<"1","8","0">>), Elem("span", <<"m","r","-","2"," ","x">>, <<"(","1",".","2",".","3",")">>) >>),
      Parent("div", <<>>, << Elem("span", <<>>, <<"C","R","R",":"," ">>), Elem("span", <<>>, <<"9",".","0","0">>) >>),
      Parent("div", <<>>, << Elem("span", <<>>, <<"C","R","R">>), Elem("span", <<>>, <<"n","/","a">>) >>),
      Elem("span", <<>>, <<"c","r","r",":"," ","8",".","5">>),
      Parent("div", <<>>, << Elem("span", <<>>, <<"D","a","t","e"," ","&"," ","T","i","m","e",":">>),
                            Elem("span", <<>>, <<" ","T","o","d","a","y",","," ","7",":","3","0"," ","P","M"," ">>) >>),
      Parent("div", <<>>, << Elem("span", <<>>, <<"D","A","T","E"," ","&"," ","T","I","M","E",":">>),
                            Elem("span", <<>>, <<"T","o","d","a","y">>) >>),
      Elem("p", <<>>, <<" ","1","0",":","0","0"," ","a","m"," ","L","O","C","A","L"," ">>),
      Elem("div", <<>>, <<"I","n","d","i","a"," ","o","p","t"," ","t","o"," ","b","a","t">>),
      Elem("div", <<"c","b","-","t","e","x","t","-","c","o","m","p","l","e","t","e">>, <<"I","n","d","i","a"," ","w","o","n"," ","b","y"," ","5"," ","r","u","n","s">>) }

MaxBody == 2

MatchBodies == UNION {[1..k -> MatchElems] : k \in 0..MaxBody}

\* the pages the JSON reading is tried on
JsonPages ==
    {[script |-> sc, h1 |-> h, body |-> b, tables |-> <<>>, bat_grid |-> <<>>,
      bowl_grid |-> <<>>] :
        sc \in Scripts, h \in Headings,
        b \in {<<>>, <<Elem("div", <<"c","b","-","s","c","o","r","e">>, <<"I","N","D"," ","1","8","0","/","5"," ","(","2","0",")">>)>>}}

\* the pages without a payload
HtmlPages ==
    {[script |-> sc, h1 |-> h, body |-> b, tables |-> TablePage(1, <<"5","2">>).tables,
      bat_grid |-> <<>>, bowl_grid |-> <<>>] :
        sc \in {None, [text |-> "undecodable", value |-> None]},
        h \in {None, Str(<<","," ","C","o","m","m","e","n","t","a","r","y">>), Str(<<"I","N","D"," ","v","s"," ","A","U","S",","," ","2","n","d"," ","T","e","s","t"," ","-"," ","S","c","o","r","e","c","a","r","d">>)},
        b \in MatchBodies}

MatchPages == JsonPages \cup HtmlPages


\* ---- score elements
\* the parts of a score text: the text of a number with the number it stands for
ScoreTeams == { <<"I","N","D">> }

ScoreGaps == { <<>>, <<" ">> }

ScoreRuns == { << <<"1","8","0">>, 180 >>, << <<"0">>, 0 >> }

ScoreSeparators == {"/", "-"}

ScoreWickets == { << <<"5">>, 5 >>, << <<"1","1">>, 11 >> }

\* the text of the overs, with m and e: the overs are m / 10^e
ScoreOvers == { << <<"2","0",".","0">>, 20, 0 >>, << <<"1","9",".","5">>, 195, 1 >>, << <<"2","0">>, 20, 0 >> }

ScoreParts == ScoreTeams \X ScoreGaps \X ScoreRuns \X ScoreSeparators \X ScoreWickets \X ScoreOvers

\* team, runs, separator, wickets and overs written as one text
ScoreText(p) == p[1] \o p[2] \o p[3][1] \o <<p[4]>> \o p[5][1] \o <<" ","(">> \o p[6][1] \o <<")">>

\* texts that are no score
OtherTexts == { <<>>, <<"I","N","D"," ","1","8","0","/","5">>, <<"1","8","0","-","5"," ","(","2","0",".","0",")">>, <<"M","a","t","c","h"," ","s","t","a","r","t","s"," ","s","o","o","n">>, <<"I","N","D"," ","1","8","0","-","5"," ","(","2","0",".","0",".","1",")">> }

\* the containers of a score text: an element of the score class, the block of
\* the bold class with the text as its string, a span of the large font in a column
ScoreContainers(text) ==
    { Elem("div", <<"c","b","-","m","i","n","-","b","a","t","-","r","w"," ","c","b","-","s","c","o","r","e">>, text),
      Elem("div", <<"f","l","e","x"," ","f","o","n","t","-","b","o","l","d"," ","t","e","x","t","-","x","l">>, text),
      Parent("div", <<"c","b","-","c","o","l"," ","c","b","-","c","o","l","-","1","0","0">>, <<Elem("span", <<"c","b","-","f","o","n","t","-","2","0"," ","t","e","x","t","-","b","o","l","d">>, text)>>) }

\* the block of the bold class with the team in a div and the score in two spans
ScoreBlock(p) ==
    Parent("div", <<"f","o","n","t","-","b","o","l","d"," ","t","e","x","t","-","x","l"," ","f","l","e","x">>,
           << Elem("div", <<"m","r","-","2">>, p[1]),
              Elem("span", <<"m","r","-","2">>, p[3][1] \o <<p[4]>> \o p[5][1]),
              Elem("span", <<"m","r","-","2">>, <<"(">> \o p[6][1] \o <<")">>) >>)

\* blocks whose spans hold no score
OtherBlocks ==
    { Parent("div", <<"f","o","n","t","-","b","o","l","d"," ","t","e","x","t","-","x","l"," ","f","l","e","x">>,
             << Elem("span", <<"m","r","-","2">>, <<"Y","e","t"," ","t","o"," ","b","a","t">>), Elem("span", <<"m","r","-","2">>, <<>>) >>),
      Parent("div", <<"f","o","n","t","-","b","o","l","d"," ","t","e","x","t","-","x","l"," ","f","l","e","x">>,
             << Elem("div", <<"m","r","-","2">>, <<"I","N","D">>), Elem("span", <<"m","r","-","2">>, <<"1","8","0">>) >>),
      Parent("div", <<"f","o","n","t","-","b","o","l","d"," ","t","e","x","t","-","x","l"," ","f","l","e","x">>,
             << Elem("div", <<"m","r","-","2">>, <<"I","N","D">>), Elem("span", <<"m","r","-","2">>, <<"1","8","0">>),
                Elem("span", <<"m","r","-","2">>, <<"(","2","0",".","0",")">>) >>) }

ScoreElems ==
    UNION {ScoreContainers(ScoreText(p)) : p \in ScoreParts}
    \cup UNION {ScoreContainers(t) : t \in OtherTexts}
    \cup {ScoreBlock(p) : p \in ScoreParts}
    \cup OtherBlocks

\* what stands before the score element in the body
Decoys ==
    { Elem("div", <<"c","b","-","s","c","o","r","e">>, <<"M","a","t","c","h"," ","s","t","a","r","t","s"," ","s","o","o","n">>),
      Elem("div", <<"c","b","-","s","c","o","r","e">>, <<"I","N","D"," ","0","-","5"," ","(","1","9",".","5",")">>),
      Elem("div", <<"f","l","e","x"," ","f","o","n","t","-","b","o","l","d"," ","t","e","x","t","-","x","l">>, <<"S","t","u","m","p","s">>),
      Elem("p", <<>>, <<"I","N","D"," ","1","/","1"," ","(","1",")">>) }

\* the number of elements of a body with a score
MaxScoreElems == 2

ScoreBodies ==
    {<<>>} \cup {d \o <<e>> : d \in UNION {[1..k -> Decoys] : k \in 0..(MaxScoreElems - 1)},
                              e \in ScoreElems}

\* the time zone of the process, in minutes east of UTC
TimeZones == {0, 330}

\* ---- listing documents
Text(text) == Elem("text", <<>>, text)

Link(href, title, kids) == [href |-> href, title |-> title, kids |-> kids]

Item(div, link, extras) == [div |-> div, link |-> link, extras |-> extras]

ListingItems ==
    { Item(Str(<<"c","b","-","m","t","c","h","-","b","l","k"," ","c","b","-","c","o","l">>),
           Link(Str(<<"/","l","i","v","e","-","c","r","i","c","k","e","t","-","s","c","o","r","e","s","/","1","0","1","/","i","n","d","-","v","s","-","a","u","s">>),
                Str(<<" ","I","n","d","i","a"," ","v","s"," ","A","u","s","t","r","a","l","i","a",","," ","1","s","t"," ","T","2","0","I"," ","-"," ","L","i","v","e"," ">>),
                << Elem("span", <<"h","i","d","d","e","n"," ","w","b",":","b","l","o","c","k">>, <<"I","n","d","i","a">>),
                   Elem("span", <<"h","i","d","d","e","n"," ","w","b",":","b","l","o","c","k">>, <<"A","u","s","t","r","a","l","i","a">>),
                   Elem("span", <<"c","b","P","l","u","s","L","i","v","e","T","a","g">>, <<"L","I","V","E">>) >>),
           << Elem("span", <<"c","b","-","p","l","u","s","-","l","i","v","e","-","t","a","g">>, <<"L","I","V","E">>) >>),
      Item(Str(<<"c","b","-","c","o","l">>),
           Link(Str(<<"/","l","i","v","e","-","c","r","i","c","k","e","t","-","s","c","o","r","e","s","/","1","0","1","/","i","n","d","-","v","s","-","a","u","s">>), None,
                << Text(<<"I","N","D"," ","v","s"," ","A","U","S",","," ","1","s","t"," ","T","2","0","I">>),
                   Elem("span", <<"t","e","x","t","-","c","b","C","o","m","p","l","e","t","e">>, <<"I","n","d","i","a"," ","w","o","n"," ","b","y"," ","5"," ","r","u","n","s">>) >>),
           << Elem("div", <<"c","b","-","t","e","x","t","-","c","o","m","p","l","e","t","e">>, <<"I","n","d","i","a"," ","w","o","n"," ","b","y"," ","5"," ","r","u","n","s">>) >>),
      Item(None,
           Link(Str(<<"h","t","t","p","s",":","/","/","x",".","t","e","s","t","/","l","i","v","e","-","c","r","i","c","k","e","t","-","s","c","o","r","e","s","/","1","0","1">>), Str(<<>>),
                << Elem("span", <<"b","l","o","c","k"," ","w","b",":","h","i","d","d","e","n">>, <<"I","N","D">>),
                   Elem("span", <<"b","l","o","c","k"," ","w","b",":","h","i","d","d","e","n">>, <<"A","U","S">>),
                   Elem("span", <<"t","e","x","t","-","c","b","C","o","m","p","l","e","t","e">>, <<"I","n","n","i","n","g","s"," ","B","r","e","a","k">>) >>),
           <<>>),
      Item(Str(<<"c","b","-","m","t","c","h","-","b","l","k">>),
           Link(Str(<<"/","l","i","v","e","-","c","r","i","c","k","e","t","-","s","c","o","r","e","s","/","1","0","2","/","e","n","g","-","v","s","-","p","a","k">>),
                Str(<<"E","n","g","l","a","n","d"," ","v","s"," ","P","a","k","i","s","t","a","n",","," ","F","i","n","a","l"," ","-"," ","P","r","e","v","i","e","w">>),
                << Elem("span", <<"t","e","x","t","-","h","v","r","-","u","n","d","e","r","l","i","n","e">>, <<"E","N","G"," ","v","s"," ","P","A","K">>),
                   Text(<<" ","T","o","m","o","r","r","o","w"," ">>) >>),
           << Elem("span", <<"s","c","h","-","d","a","t","e">>, <<"T","o","d","a","y",","," ","7",":","3","0"," ","P","M">>) >>),
      Item(Str(<<"c","b","-","c","o","l">>),
           Link(Str(<<"/","l","i","v","e","-","c","r","i","c","k","e","t","-","s","c","o","r","e","s","/","1","0","2","/","e","n","g","-","v","s","-","p","a","k">>), None,
                << Text(<<"E","n","g","l","a","n","d"," ","v","s"," ","P","a","k","i","s","t","a","n",","," ","F","i","n","a","l">>),
                   Elem("span", <<"s","c","h","-","d","a","t","e">>, <<" ","7",":","3","0"," ","P","M"," ">>) >>),
           << Elem("div", <<>>, <<"E","n","g","l","a","n","d"," ","w","o","n"," ","b","y"," ","3"," ","w","i","c","k","e","t","s">>) >>),
      Item(Str(<<"c","b","-","m","t","c","h","-","b","l","k">>),
           Link(Str(<<"/","c","r","i","c","k","e","t","-","n","e","w","s","/","5","/","l","i","v","e","-","c","r","i","c","k","e","t","-","s","c","o","r","e","s","/","x">>), Str(<<"N","e","w","s">>), << Text(<<"N","e","w","s">>) >>),
           <<>>),
      Item(None,
           Link(Str(<<"/","l","i","v","e","-","c","r","i","c","k","e","t","-","s","c","o","r","e","s","/","1","0","3","/","s","l","-","v","s","-","n","z">>),
                Str(<<"S","r","i"," ","L","a","n","k","a"," ","w","o","n"," ","t","h","e"," ","t","o","s","s"," ","a","n","d"," ","o","p","t"," ","t","o"," ","b","a","t">>),
                << Elem("span", <<"b","l","o","c","k"," ","w","b",":","h","i","d","d","e","n">>, <<"S","L">>) >>),
           <<>>),
      Item(Str(<<"c","b","-","c","o","l">>), Link(Str(<<"/","l","i","v","e","-","c","r","i","c","k","e","t","-","s","c","o","r","e","s","/","1","0","4">>), None, << Text(<<" ">>) >>), <<>>),
      Item(Str(<<"c","b","-","m","t","c","h","-","b","l","k">>),
           Link(Str(<<"/","l","i","v","e","-","c","r","i","c","k","e","t","-","s","c","o","r","e","s","/","1","0","5","/","t","r","i","-","s","e","r","i","e","s">>), Str(<<"D","a","y"," ","2",":"," ","S","t","u","m","p","s">>),
                << Elem("span", <<"h","i","d","d","e","n"," ","w","b",":","b","l","o","c","k">>, <<"I","n","d","i","a">>),
                   Elem("span", <<"h","i","d","d","e","n"," ","w","b",":","b","l","o","c","k">>, <<"A","u","s","t","r","a","l","i","a">>),
                   Elem("span", <<"h","i","d","d","e","n"," ","w","b",":","b","l","o","c","k">>, <<"I","n","d","i","a"," ","A">>) >>),
           <<>>),
      Item(Str(<<"c","b","-","m","t","c","h","-","b","l","k">>), Link(None, None, << Text(<<"t","o","p">>) >>), <<>>),
      Item(Str(<<"c","b","-","c","o","l">>), None, << Elem("span", <<"s","c","h","-","d","a","t","e">>, <<"T","o","d","a","y">>) >>) }

MaxLinks == 3

ListingDocs == UNION {[1..k -> ListingItems] : k \in 0..MaxLinks}


(***************************************************************************)
(* The calls: a function of the program is applied to an input             *)
(***************************************************************************)
Init ==
    /\ pc = "ready"
    /\ ret = Pending
    /\ log = 0
    /\ earlier = <<>>
    /\ \/ fn = "fetch_page" /\ arg \in FetchOutcomes
       \/ fn = "is_valid_status" /\ arg \in StatusTexts
       \/ fn = "extract_match_status_from_match_page" /\ arg \in StatusDocs
       \/ fn = "extract_batting" /\ arg \in ScorecardPages
       \/ fn = "extract_bowling" /\ arg \in ScorecardPages
       \/ fn = "extract_current_score" /\ arg \in ScoreBodies
       \/ fn = "main.extract_current_score" /\ arg \in ScoreBodies
       \/ fn = "extract_match_data" /\ arg \in MatchPages
       \/ fn = "extract_live_matches" /\ arg \in ListingDocs
       \/ fn = "main.extract_live_matches" /\ arg \in ListingDocs
    \* datetime.fromtimestamp alone reads the time zone, when extract_match_data
    \* has a payload to read
    /\ tz \in (IF fn = "extract_match_data" /\ arg \in JsonPages THEN TimeZones ELSE {0})

\* the records a call hands to the logger of the module
log_records(name, input) ==
    IF name = "fetch_page"
    THEN (IF fetch_page(input).t = "return" /\ fetch_page(input).v[2] # None THEN 1 ELSE 0)
    ELSE IF name = "extract_match_data"
    THEN (IF input.script # None /\ input.script.text = "undecodable" THEN 1 ELSE 0)
         + (IF Truthy(extract_json_data(input))
            THEN (IF scorecard_try(extract_json_data(input)).t = "raise"
                  THEN (IF parse_scorecard_from_json(extract_json_data(input)).t = "raise"
                        THEN 0 ELSE 2)
                  ELSE IF scorecard_try(extract_json_data(input)).v = None THEN 1 ELSE 0)
            ELSE 1)
    ELSE 0

\* a call: the function returns or raises; the document and the time zone stay
\* as they are, the logger gets its records, and the call is remembered
Call(name, value) ==
    /\ pc = "ready"
    /\ fn = name
    /\ ret' = value
    /\ pc' = "done"
    /\ log' = log + log_records(name, arg)
    /\ UNCHANGED <<fn, arg, tz>>
    /\ earlier' = Append(earlier, [fn |-> fn, arg |-> arg, log |-> log, ret |-> value,
                                   after |-> arg'])

FetchPage == Call("fetch_page", fetch_page(arg))

IsValidStatus == Call("is_valid_status", Return(is_valid_status(arg)))

ExtractMatchStatus ==
    Call("extract_match_status_from_match_page",
         Return(extract_match_status_from_match_page(arg)))

ExtractBatting == Call("extract_batting", Return(extract_batting(arg)))

ExtractBowling == Call("extract_bowling", Return(extract_bowling(arg)))

ExtractCurrentScore == Call("extract_current_score", extract_current_score(arg))

MainExtractCurrentScore ==
    Call("main.extract_current_score", Return(main_extract_current_score(arg)))

ExtractMatchData == Call("extract_match_data", extract_match_data(arg))

ExtractLiveMatches == Call("extract_live_matches", Return(extract_live_matches(arg)))

MainExtractLiveMatches ==
    Call("main.extract_live_matches", Return(main_extract_live_matches(arg)))

Next ==
    \/ FetchPage
    \/ IsValidStatus
    \/ ExtractMatchStatus
    \/ ExtractBatting
    \/ ExtractBowling
    \/ ExtractCurrentScore
    \/ MainExtractCurrentScore
    \/ ExtractMatchData
    \/ ExtractLiveMatches
    \/ MainExtractLiveMatches

Spec == Init /\ [][Next]_vars

(***************************************************************************)
(* Several calls in one process: after a call another one is made, on the  *)
(* same document or on another                                             *)
(***************************************************************************)
\* the number of calls of a run
MaxCalls == 3

\* the listings of the calls: none, or one link to match 101
CallDocs ==
    {<<>>} \cup {<<it>> : it \in {x \in ListingItems :
                                     /\ x.link # None
                                     /\ x.link.href # None
                                     /\ match_id(x.link.href.v) = Num(101)}}

\* the match pages of the calls: no payload, an undecodable one, a payload with
\* two innings, one without a start date, one without a header
CallPages ==
    {[script |-> sc, h1 |-> Str(<<"I","N","D"," ","v","s"," ","A","U","S",","," ","2","n","d"," ","T","e","s","t"," ","-"," ","S","c","o","r","e","c","a","r","d">>), body |-> <<>>,
      tables |-> <<>>, bat_grid |-> <<>>, bowl_grid |-> <<>>] :
        sc \in {None, [text |-> "undecodable", value |-> None]}
               \cup {[text |-> "json", value |-> v] :
                        v \in {Payload("again", None), Payload("startDate", Absent),
                               Payload("matchHeader", Absent)}}}

Chosen(name, input) ==
    \/ name = "extract_live_matches" /\ input \in CallDocs
    \/ name = "extract_match_data" /\ input \in CallPages

InitCalls ==
    /\ pc = "ready"
    /\ ret = Pending
    /\ tz \in TimeZones
    /\ log = 0
    /\ earlier = <<>>
    /\ Chosen(fn, arg)

\* the caller goes on to its next call
NextCall ==
    /\ pc = "done"
    /\ Len(earlier) < MaxCalls
    /\ pc' = "ready"
    /\ ret' = Pending
    /\ Chosen(fn', arg')
    /\ UNCHANGED <<tz, log, earlier>>

NextCalls ==
    \/ ExtractLiveMatches
    \/ ExtractMatchData
    \/ NextCall

Calls == InitCalls /\ [][NextCalls]_vars

Done(name) == fn = name /\ pc = "done"


\* the function is one of the two revisions of extract_live_matches
C1_Listed == Done("extract_live_matches") \/ Done("main.extract_live_matches")

\* C1: the list extract_live_matches returns has no two entries with the same
\* id, however many links of the document point to the same match
C1_UniqueIds ==
    C1_Listed =>
        \A i, j \in 1..Len(ret.v) : ret.v[i].id = ret.v[j].id => i = j

\* several links of the document point to the match of a returned entry
C1_Witness ==
    /\ C1_Listed
    /\ Len(ret.v) >= 2
    /\ \E i, j \in 1..Len(arg) :
          /\ i < j
          /\ arg[i].link # None /\ arg[j].link # None
          /\ arg[i].link.href # None /\ arg[j].link.href # None
          /\ match_id(arg[i].link.href.v) = Num(ret.v[1].id)
          /\ match_id(arg[j].link.href.v) = Num(ret.v[1].id)

\* the entry built from the last link of the document that points to match id
C2_LastEntry(doc, id) ==
    LET I == {i \in 1..Len(all_links(doc)) : match_id(all_links(doc)[i].link.href.v) = Num(id)}
    IN link_entry(all_links(doc)[CHOOSE i \in I : \A j \in I : j <= i].link)

\* C2: when several links carry the same match id, the entry of that id in the
\* list is the one built from the last of them in the document: its title,
\* teams, status and start_time are those of the last occurrence
C2_LastOccurrenceWins ==
    Done("extract_live_matches") =>
        \A i \in 1..Len(ret.v) : ret.v[i] = C2_LastEntry(arg, ret.v[i].id)


RECURSIVE C3_Path(_, _)
\* the value found in x by following the keys through dicts, None when a step fails
C3_Path(x, keys) ==
    IF keys = <<>> THEN x
    ELSE IF x.t = "dict" /\ Head(keys) \in DOMAIN x.v THEN C3_Path(x.v[Head(keys)], Tail(keys))
    ELSE None

\* the match description the embedded JSON of the page gives, None when it gives none
C3_Description(page) ==
    IF page.script = None \/ page.script.text # "json" THEN None
    ELSE C3_Path(page.script.value,
                 << <<"p","r","o","p","s">>, <<"p","a","g","e","P","r","o","p","s">>, <<"m","a","t","c","h","S","c","o","r","e","c","a","r","d">>, <<"m","a","t","c","h","H","e","a","d","e","r">>,
                    <<"m","a","t","c","h","D","e","s","c","r","i","p","t","i","o","n">> >>)

\* no title is recoverable: no non-empty description, no heading with a text
C3_NoTitle(page) ==
    /\ ~(C3_Description(page).t = "str" /\ C3_Description(page).v # <<>>)
    /\ (page.h1 = None \/ Strip(page.h1.v) = <<>>)

\* C3: when no title is recoverable from a detail page (no match description in
\* the embedded JSON, and no heading or a heading without text), the title that
\* extract_match_data returns is null, never the empty string
C3_TitleNullWhenUnrecoverable ==
    (Done("extract_match_data") /\ C3_NoTitle(arg) /\ ret.t = "return")
        => ret.v.title = None

\* C4: extract_match_data returns the result of the JSON path only if that path
\* yields a non-empty title; when the JSON is absent or yields no title, what it
\* returns is the result of the HTML fallback
C4_JsonOnlyWithTitle ==
    (/\ Done("extract_match_data")
     /\ ret.t = "return"
     /\ ~(C3_Description(arg).t = "str" /\ C3_Description(arg).v # <<>>))
        => ret = html_match_data(arg)

\* the reading of the embedded JSON fails: no script, no string, no JSON, or a
\* key or a type that the parsing stumbles on
C5_Malformed(page) ==
    \/ page.script = None
    \/ page.script.text # "json"
    \/ scorecard_try(page.script.value).t = "raise"

\* C5: whatever the embedded JSON payload is (undecodable, keys missing, a value
\* of another type at any level), extract_match_data raises nothing and returns
\* the result of the HTML fallback
C5_MalformedJsonFallsBack ==
    (/\ Done("extract_match_data")
     /\ C5_Malformed(arg)
     /\ html_match_data(arg).t = "return")
        => ret = html_match_data(arg)


\* ---------------------------------------------------------------- claims
(***************************************************************************)
(* fetch_page                                                              *)
(***************************************************************************)
C7_Is2xx(o) == o.exc = "none" /\ o.status \in 200..299

C8_ExpectedTag(o) ==
    IF o.exc # "none"
    THEN (IF "Timeout" \in Mro(o.exc) THEN <<"t","i","m","e","o","u","t">>
          ELSE IF "ConnectionError" \in Mro(o.exc) THEN <<"c","o","n","n","e","c","t","i","o","n","_","e","r","r","o","r">>
          ELSE <<"u","n","k","n","o","w","n">>)
    ELSE <<"h","t","t","p","_">> \o IntToText(o.status)

\* C8: fetch_page gives every failure exactly one tag, by a fixed order: a
\* timeout (a connect timeout too) gives timeout, any other connection failure
\* connection_error, a response that is not 2xx, of status N, http_N, and every
\* other exception unknown.
C8_FetchPageTagOrder ==
    Done("fetch_page") /\ ~C7_Is2xx(arg) =>
        ret = Return(<<None, Str(C8_ExpectedTag(arg))>>)

(***************************************************************************)
(* extract_batting, extract_bowling                                        *)
(***************************************************************************)
\* the number a statistic text stands for: its value when it is a number, else 0
C6_Int(t) ==
    IF t # <<>> /\ \A i \in 1..Len(t) : t[i] \in DecimalDigits
    THEN Num(DigitsToInt(t)) ELSE Num(0)

C6_Float(t) == IF float(t).t = "return" THEN float(t).v ELSE Flt(Float(0, 0))

C6_Entry(kind, link, cells) ==
    IF kind = "bat"
    THEN [name |-> Str(batting_name(link)),
          runs |-> C6_Int(Strip(cells[1])), balls |-> C6_Int(Strip(cells[2])),
          fours |-> C6_Int(Strip(cells[3])), sixes |-> C6_Int(Strip(cells[4])),
          sr |-> C6_Float(Strip(cells[5]))]
    ELSE [name |-> Str(Strip(link.v)),
          overs |-> C6_Float(Strip(cells[1])), maidens |-> C6_Int(Strip(cells[2])),
          runs |-> C6_Int(Strip(cells[3])), wickets |-> C6_Int(Strip(cells[4])),
          econ |-> C6_Float(Strip(cells[5]))]

\* the rows with a profile link and enough cells, as (link, statistic cells)
C6_TableRows(page, word) ==
    {<<r.link, SubSeq(r.cells, 3, 7)>> :
        r \in {page.tables[i].rows[j] :
                  <<i, j>> \in {x \in (1..Len(page.tables)) \X (1..3) :
                                  /\ header_has(page.tables[x[1]], word)
                                  /\ x[2] <= Len(page.tables[x[1]].rows)
                                  /\ page.tables[x[1]].rows[x[2]].link # None
                                  /\ Len(page.tables[x[1]].rows[x[2]].cells) >= 7}}}

C6_GridRows(grid) ==
    {<<grid[j].link, SubSeq(grid[j].cells, 1, 5)>> :
        j \in {x \in 1..Len(grid) : grid[x].link # None /\ Len(grid[x].cells) >= 5}}

C6_Rows(page, kind) ==
    LET T == C6_TableRows(page, IF kind = "bat" THEN <<"B","a","t","t","e","r">> ELSE <<"B","o","w","l","e","r">>)
    IN IF T # {} THEN T
       ELSE C6_GridRows(IF kind = "bat" THEN page.bat_grid ELSE page.bowl_grid)

\* C6: in extract_batting and extract_bowling, for every row with a profile
\* link and enough cells and every text in a statistic cell, the field is the
\* number the text stands for, 0 (or 0.0) when it is none, the row is emitted,
\* and no exception escapes.
C6_NumericCoercion ==
    \A kind \in {"bat", "bowl"} :
        Done(IF kind = "bat" THEN "extract_batting" ELSE "extract_bowling") =>
            /\ ret.t = "return"
            /\ \A r \in C6_Rows(arg, kind) :
                  \E k \in 1..Len(ret.v) : ret.v[k] = C6_Entry(kind, r[1], r[2])

(***************************************************************************)
(* is_valid_status, extract_match_status_from_match_page                   *)
(***************************************************************************)
\* C9: is_valid_status accepts a text exactly when it is not empty, has at
\* most 60 characters, contains no phrase of the denylist (Schedule, Archives,
\* Rankings, Videos and More among them, as the page writes them) and contains
\* a keyword of the allowlist.
C9_ValidStatusIff ==
    Done("is_valid_status") =>
        (ret.v <=>
            /\ arg # <<>>
            /\ Len(arg) <= 60
            /\ ~\E p \in 1..Len(bad) : Contains(Lower(arg), Lower(bad[p]))
            /\ \E k \in 1..Len(keywords) : Contains(Lower(arg), keywords[k]))

\* the text a rule takes when the element it found has a valid text
C10_Valid(e) ==
    IF e # None /\ is_valid_status(get_text(e)) THEN Str(get_text(e)) ELSE None

\* what each rule yields on the document, None when it yields nothing
C10_Rule(k, els) ==
    CASE k = 1 ->
            IF \E i \in 1..Len(els) : /\ els[i].tag = "span"
                                      /\ Contains(els[i].cls, <<"c","b","-","p","l","u","s","-","l","i","v","e","-","t","a","g">>)
            THEN Str(<<"L","i","v","e">>) ELSE None
      [] k = 2 -> C10_Valid(FindClass(els, "div", <<"c","b","-","t","e","x","t","-">>))
      [] k = 3 -> C10_Valid(FindToss(els))
      [] k = 4 -> C10_Valid(FindResult(els))
      [] k = 5 ->
            LET hit(w) == C10_Valid(FindKeyword(els, status_keywords[w]))
                W == {w \in 1..Len(status_keywords) : hit(w) # None}
            IN IF W = {} THEN None ELSE hit(CHOOSE w \in W : \A x \in W : w <= x)
      [] k = 6 ->
            IF \E i \in 1..Len(els) : /\ els[i].tag = "div"
                                      /\ Contains(els[i].cls, <<"c","b","-","t","e","x","t","-","p","r","e","v","i","e","w">>)
            THEN Str(<<"P","r","e","v","i","e","w">>) ELSE None
      [] k = 7 ->
            LET H == {i \in 1..Len(els) : /\ els[i].tag = "div"
                                          /\ Contains(els[i].cls, <<"c","b","-","c","o","l","-","1","0","0">>)
                                          /\ Contains(els[i].cls, <<"c","b","-","m","i","n","i","s","c","r","o","l","l">>)}
                kids == IF H = {} THEN <<>> ELSE els[CHOOSE i \in H : \A j \in H : i <= j].kids
                V == {i \in 1..Len(kids) : is_valid_status(get_text(kids[i]))}
            IN IF V = {} THEN None
               ELSE Str(get_text(kids[CHOOSE i \in V : \A j \in V : i <= j]))

\* C10: in the HTML path the status is what the first rule that yields a value
\* yields, in the order live badge, status-class element with a valid text, toss
\* text, result text, keyword elements, preview-class element, header scan: a
\* page with a live badge has status Live whatever else it holds, and a rule
\* whose candidate fails the validity filter is passed over.
C10_StatusRuleOrder ==
    Done("extract_match_status_from_match_page") =>
        LET els == Flat(arg)
            Y == {k \in 1..7 : C10_Rule(k, els) # None}
        IN /\ ret.v = IF Y = {} THEN None
                      ELSE C10_Rule(CHOOSE k \in Y : \A j \in Y : k <= j, els)
           /\ (C10_Rule(1, els) # None => ret.v = Str(<<"L","i","v","e">>))

\* a status-class element with an invalid text is passed over for the toss text
C10_Witness ==
    /\ Done("extract_match_status_from_match_page")
    /\ FindClass(Flat(arg), "div", <<"c","b","-","t","e","x","t","-">>) # None
    /\ C10_Rule(2, Flat(arg)) = None
    /\ ret.v = Str(<<"I","n","d","i","a"," ","o","p","t"," ","t","o"," ","b","a","t">>)

(***************************************************************************)
(* extract_match_data: the HTML path                                       *)
(***************************************************************************)
\* the call took the HTML path: the page gave no JSON, or the JSON reading gave
\* nothing, and a dict was returned
C11_HtmlPath ==
    /\ Done("extract_match_data")
    /\ ret.t = "return"
    /\ \/ ~Truthy(extract_json_data(arg))
       \/ parse_scorecard_from_json(extract_json_data(arg)) = Return(None)

\* no rule of extract_match_status_from_match_page makes a status of the elements
C11_NoRule(els) == \A k \in 1..7 : C10_Rule(k, els) = None

\* C11: in the HTML path of extract_match_data, when no status rule yields a
\* value the status is the literal 'Match Stats will Update Soon...'; the
\* status is never None and never the empty string: it is 'Live', 'Preview',
\* the literal, or a text that passes the validity filter.
C11_StatusNeverEmpty ==
    C11_HtmlPath =>
        /\ (C11_NoRule(Flat(arg.body)) => ret.v.status = Str(Fallback))
        /\ ret.v.status # None
        /\ ret.v.status # Str(<<>>)
        /\ \/ ret.v.status.v \in { <<"L","i","v","e">>, <<"P","r","e","v","i","e","w">>, Fallback }
           \/ is_valid_status(ret.v.status.v)

\* a page with elements of which no rule makes a status
C11_Witness ==
    /\ C11_HtmlPath
    /\ arg.body # <<>>
    /\ C11_NoRule(Flat(arg.body))
    /\ ret.v.status = Str(Fallback)

(***************************************************************************)
(* extract_current_score                                                   *)
(***************************************************************************)
\* the text is the parts p written as a score, with or without the blanks
C12_Shaped(text, p) ==
    \E g1, g2 \in ScoreGaps :
        text = p[1] \o g1 \o p[3][1] \o <<p[4]>> \o p[5][1] \o g2 \o <<"(">> \o p[6][1] \o <<")">>

\* the score line the parts stand for
C12_Expected(p) ==
    [team |-> Str(p[1]), runs |-> Num(p[3][2]), wickets |-> Num(p[5][2]),
     overs |-> Flt([m |-> p[6][2], e |-> p[6][3]])]

\* the elements the container selectors of a revision locate, in the order in
\* which the revision tries them
C12_Located(name, body) ==
    IF name = "extract_current_score"
    THEN << FindClass(Flat(body), "div", <<"c","b","-","s","c","o","r","e">>),
            FindFirst(Flat(body), {i \in 1..Len(Flat(body)) :
                                     /\ Flat(body)[i].tag = "div"
                                     /\ Contains(Flat(body)[i].cls, <<"f","o","n","t","-","b","o","l","d">>)
                                     /\ Contains(Flat(body)[i].cls, <<"t","e","x","t","-","x","l">>)
                                     /\ Contains(Flat(body)[i].cls, <<"f","l","e","x">>)}) >>
    ELSE << select_block(Flat(body)), select_score(Flat(body)), select_font(body) >>

\* the text is a score
C12_IsScore(text) == \E p \in ScoreParts : C12_Shaped(text, p)

\* the first element of located whose text is a score, None when there is none
C12_Element(located) ==
    FindFirst(located, {k \in 1..Len(located) :
                          located[k] # None /\ C12_IsScore(get_text(located[k]))})

\* result is the score line that the text of the element holds
C12_Yields(element, result) ==
    element # None =>
        \E p \in ScoreParts :
            C12_Shaped(get_text(element), p) /\ result = Return(C12_Expected(p))

\* C12: for a score element whose text is letters, digits, '-' or '/', digits
\* and the overs in parentheses, extract_current_score yields the team, runs,
\* wickets and overs that the text holds, with either separator and whichever
\* container selector located the element.
C12_ScoreParts ==
    (Done("extract_current_score") \/ Done("main.extract_current_score")) =>
        C12_Yields(C12_Element(C12_Located(fn, arg)), ret)

\* the statement for the revision of main.py alone
C12_MainOnly ==
    Done("main.extract_current_score") =>
        C12_Yields(C12_Element(C12_Located(fn, arg)), ret)

\* the fields of a score line are in their ranges
C13_InRange(s) ==
    /\ s.runs.t = "int" /\ s.runs.v >= 0
    /\ s.wickets.t = "int" /\ s.wickets.v \in 0..10
    /\ s.overs.t = "float" /\ s.overs.v.m >= 0

\* the score line a call returned, None when it returned none
C13_ScoreLine ==
    IF ret.t # "return" THEN None
    ELSE IF Done("extract_current_score") \/ Done("main.extract_current_score") THEN ret.v
    ELSE IF Done("extract_match_data") THEN ret.v.current_score
    ELSE None

\* C13: every score line returned as current_score, by the HTML path or by
\* the JSON path, has runs an integer >= 0, wickets an integer from 0 to 10 and
\* overs >= 0, whatever the document.
C13_ScoreLineRanges == C13_ScoreLine # None => C13_InRange(C13_ScoreLine)

\* C19: extract_current_score returns None when no located element has the
\* text of a score: it returns a score line only with team, runs, wickets and
\* overs read from the element, never one of zeros or with an empty team.
C19_NoneWithoutScore ==
    (/\ Done("extract_current_score") \/ Done("main.extract_current_score")
     /\ C12_Element(C12_Located(fn, arg)) = None)
        => ret = Return(None)

\* the statement for the revision of main.py alone
C19_MainOnly ==
    (Done("main.extract_current_score") /\ C12_Element(C12_Located(fn, arg)) = None)
        => ret = Return(None)

(***************************************************************************)
(* extract_live_matches: the entries                                       *)
(***************************************************************************)
\* the first of the links that points to match id: the entry of the id
\* is built from it
C14_Link(links, id) ==
    LET I == {i \in 1..Len(links) : match_id(links[i].link.href.v) = Num(id)}
    IN links[CHOOSE i \in I : \A j \in I : i <= j].link

\* the spans of the link that are a marker: one of their classes contains frag
C14_Markers(link, frag) ==
    {i \in 1..Len(link.kids) :
        link.kids[i].tag = "span" /\ Contains(link.kids[i].cls, frag)}

\* what rule k makes of the link, None when the rule does not match
C14_Rule(k, link, title) ==
    CASE k = 1 -> IF C14_Markers(link, <<"c","b","P","l","u","s","L","i","v","e","T","a","g">>) # {} THEN Str(<<"L","i","v","e">>) ELSE None
      [] k = 2 ->
            LET R == C14_Markers(link, <<"t","e","x","t","-","c","b","C","o","m","p","l","e","t","e">>)
                text == Strip(link.kids[CHOOSE i \in R : \A j \in R : i <= j].text)
            IN IF R = {} THEN None
               ELSE IF AnyIn({ <<"w","o","n">>, <<"w","i","n">>, <<"c","o","m","p","l","e","t","e">> }, Lower(text))
               THEN Str(<<"C","o","m","p","l","e","t","e","d">>)
               ELSE Str(text)
      [] k = 3 ->
            IF AnyIn({ <<"w","o","n">>, <<"c","o","m","p","l","e","t","e">>, <<"m","a","t","c","h"," ","d","r","a","w","n">>, <<"a","b","a","n","d","o","n","e","d">> }, Lower(title))
            THEN Str(<<"C","o","m","p","l","e","t","e","d">>) ELSE None
      [] k = 4 ->
            IF AnyIn({ <<"o","p","t"," ","t","o">>, <<"t","o","s","s">>, <<"s","t","u","m","p","s">>, <<"l","u","n","c","h">>, <<"t","e","a">>, <<"d","a","y">>,
                       <<"i","n","n","i","n","g","s"," ","b","r","e","a","k">>, <<"n","e","e","d">>, <<"r","e","q","u","i","r","e">>, <<"t","r","a","i","l">>, <<"l","e","a","d">> },
                     Lower(title))
            THEN Str(<<"L","i","v","e">>) ELSE None
      [] k = 5 -> Str(<<"U","p","c","o","m","i","n","g">>)

\* the first of the values that is not None
C14_First(values) ==
    values[CHOOSE k \in 1..Len(values) :
              values[k] # None /\ \A j \in 1..(k - 1) : values[j] = None]

\* the status of the first rule that matches
C14_Status(link, title) ==
    C14_First(<<C14_Rule(1, link, title), C14_Rule(2, link, title), C14_Rule(3, link, title),
                C14_Rule(4, link, title), C14_Rule(5, link, title)>>)

C15_NoEmptyTitle ==
    C1_Listed => \A i \in 1..Len(ret.v) : ret.v[i].title # Str(<<>>)

\* C16: the teams of every returned entry are two strings or none: the list
\* never has one element or more than two, whatever the number of team-name
\* spans in the link.
C16_TeamsPairOrEmpty ==
    C1_Listed => \A i \in 1..Len(ret.v) : Len(ret.v[i].teams) \in {0, 2}

\* the statement for the revision of main.py alone
C16_MainOnly ==
    Done("main.extract_live_matches") =>
        \A i \in 1..Len(ret.v) : Len(ret.v[i].teams) \in {0, 2}

(***************************************************************************)
(* The batting and bowling lists                                           *)
(***************************************************************************)
\* the lists of players a call returned
C17_Lists ==
    IF ret.t # "return" THEN {}
    ELSE IF Done("extract_batting") \/ Done("extract_bowling") THEN {ret.v}
    ELSE IF Done("extract_match_data") THEN {ret.v.batting, ret.v.bowling}
    ELSE {}

RECURSIVE C17_Subseq(_, _)
\* a is b with some of its elements left out
C17_Subseq(a, b) ==
    IF a = <<>> THEN TRUE
    ELSE IF b = <<>> THEN FALSE
    ELSE IF Head(a) = Head(b) THEN C17_Subseq(Tail(a), Tail(b))
    ELSE C17_Subseq(a, Tail(b))

RECURSIVE C17_RowNames(_, _)
\* the names of the rows that have a profile link, in the order of the rows
C17_RowNames(rows, kind) ==
    IF rows = <<>> THEN <<>>
    ELSE (IF Head(rows).link = None THEN <<>>
          ELSE <<Str(IF kind = "bat" THEN batting_name(Head(rows).link)
                     ELSE Strip(Head(rows).link.v))>>)
         \o C17_RowNames(Tail(rows), kind)

RECURSIVE C17_TableNames(_, _)
C17_TableNames(tables, kind) ==
    IF tables = <<>> THEN <<>>
    ELSE C17_RowNames(Head(tables).rows, kind) \o C17_TableNames(Tail(tables), kind)

\* the names of the players of the page, in document order
C17_PageNames(page, kind) ==
    C17_TableNames(page.tables, kind)
    \o C17_RowNames(IF kind = "bat" THEN page.bat_grid ELSE page.bowl_grid, kind)

\* the list keeps the order of the rows of the page
C17_DocumentOrder ==
    \A kind \in {"bat", "bowl"} :
        Done(IF kind = "bat" THEN "extract_batting" ELSE "extract_bowling") =>
            C17_Subseq([i \in 1..Len(ret.v) |-> ret.v[i].name], C17_PageNames(arg, kind))

\* C17: the batting and bowling lists keep the document order of their rows
\* and no player name is twice in a list: of a name found in several rows or
\* several innings, only the first occurrence is kept.
C17_OrderedNoRepeat ==
    /\ C17_DocumentOrder
    /\ \A list \in C17_Lists :
          \A i, j \in 1..Len(list) : list[i].name = list[j].name => i = j

C20_Label == <<"d","a","t","e"," ","&"," ","t","i","m","e",":">>

RECURSIVE C20_Unlabel(_)
\* the text without the label, in whatever letter case the label is written
C20_Unlabel(text) ==
    IF ~Contains(Lower(text), C20_Label) THEN text
    ELSE C20_Unlabel(SubSeq(text, 1, Find(Lower(text), C20_Label) - 1)
                     \o SubSeq(text, Find(Lower(text), C20_Label) + Len(C20_Label), Len(text)))

\* a text of the page holds a time of day
C20_Timed(page) ==
    \/ MatchesTime(HeadingText(page))
    \/ \E p \in Places(page) : MatchesTime(ElemAt(page, p[1], p[2]).text)

\* the start time of a page with the label in the spans at places labels
C20_Expected(page, labels) ==
    IF labels # {}
    THEN Str(Strip(C20_Unlabel(ParentText(page, FirstPlace(labels), TRUE))))
    ELSE None

\* C20: extract_start_time_from_match_page takes the text at the label
\* 'Date & Time:' before a time of day found elsewhere, returns None when the
\* page has neither, and a text taken at the label holds the label no more, in
\* whatever letter case the label was matched.
C20_StartTime ==
    C11_HtmlPath =>
        IF SpansWith(arg, C20_Label) # {}
        THEN /\ ret.v.start_time = C20_Expected(arg, SpansWith(arg, C20_Label))
             /\ ~Contains(Lower(ret.v.start_time.v), C20_Label)
        ELSE IF C20_Timed(arg)
        THEN ret.v.start_time # None /\ MatchesTime(ret.v.start_time.v)
        ELSE ret.v.start_time = None

\* the statement for the pages whose label is written 'Date & Time:'
C20_SameCase ==
    (C11_HtmlPath /\ \A p \in SpansWith(arg, C20_Label) :
                        Contains(ElemAt(arg, p[1], p[2]).text, <<"D","a","t","e"," ","&"," ","T","i","m","e",":">>))
        => IF SpansWith(arg, C20_Label) # {}
           THEN /\ ret.v.start_time = C20_Expected(arg, SpansWith(arg, C20_Label))
                /\ ~Contains(Lower(ret.v.start_time.v), C20_Label)
           ELSE IF C20_Timed(arg)
           THEN ret.v.start_time # None /\ MatchesTime(ret.v.start_time.v)
           ELSE ret.v.start_time = None

(***************************************************************************)
(* extract_live_matches: the ids and their order                           *)
(***************************************************************************)
\* for each place of the document, the id of its link when the target of the
\* link matches /live-cricket-scores/<digits>, None otherwise
C21_Ids(doc) ==
    SubSeq([k \in 1..Len(doc) |->
               IF doc[k].link # None /\ doc[k].link.href # None
               THEN match_id(doc[k].link.href.v) ELSE None],
           1, Len(doc))

\* the first place of the document whose link has the id
C21_First(ids, id) ==
    CHOOSE k \in 1..Len(ids) : ids[k] = Num(id) /\ \A j \in 1..(k - 1) : ids[j] # Num(id)

\* the entries have the ids of the links, each once, in the order of the first
\* link of each
C21_InOrder(ids, entries) ==
    /\ \A i \in 1..Len(entries) : \E k \in 1..Len(ids) : ids[k] = Num(entries[i].id)
    /\ \A k \in 1..Len(ids) :
          ids[k] # None
              => Cardinality({i \in 1..Len(entries) : Num(entries[i].id) = ids[k]}) = 1
    /\ \A i, j \in 1..Len(entries) :
          i < j => C21_First(ids, entries[i].id) < C21_First(ids, entries[j].id)

C21_MainSkipsLinks ==
    /\ Done("main.extract_live_matches")
    /\ \E k \in 1..Len(arg) :
          /\ C21_Ids(arg)[k] # None
          /\ \A i \in 1..Len(ret.v) : Num(ret.v[i].id) # C21_Ids(arg)[k]


====
